---- MODULE Spec2Model ----
(***************************************************************************)
(* Model of the synchronization engine of dp-system-call-logs:             *)
(*   backend/src/sync/engine.js  SyncEngine (run, getStatus, resetState)   *)
(*   backend/src/sync/sync.js    sync() pipeline, clients, window          *)
(*   backend/src/sync/state.js   StateManager (watermark file)             *)
(*   backend/src/sync/retry.js   retry (attempts, backoff, jitter)         *)
(* Node.js runs one handler at a time; a handler gives up control only at  *)
(* an await.  Every action below is the code between two awaits of one     *)
(* invocation.                                                             *)
(***************************************************************************)
EXTENDS Integers, Sequences, FiniteSets, TLC

\* ------------------------------------------------------------- bounds
MaxRequests == 2        \* run() invocations (scheduler ticks, manual triggers)
MaxResets == 1          \* resetState() invocations
MaxTicks == 1           \* half seconds the clock advances over a behaviour
MaxFeed == 2            \* calls the provider's feed holds
MaxRetries == 5         \* options.retries passed to retry()
MaxBatch == 21          \* records handed to one upsertCalls()

\* -------------------------------------------------- program constants
HistoryCap == 100       \* engine.js: keep last 100
StatusHistoryLen == 10  \* engine.js getStatus: history.slice(0, 10)
MaxPages == 200         \* sync.js: const maxPages = 200
ChunkSize == 10         \* sync.js upsertCalls: i += 10
PageSizeCap == 50       \* sync.js: Math.min(parseInt(PAGE_SIZE), 50)
MsPerSec == 1000
DefaultRetries == 5         \* retry.js defaults: retries
DefaultMinTimeout == 1000   \* retry.js defaults: minTimeout
DefaultMaxTimeout == 30000  \* retry.js defaults: maxTimeout
DefaultFactor == 2          \* retry.js defaults: factor
PaceMs == 250               \* sync.js upsertCalls: setTimeout(resolve, 250)
DirectoryPageSize == 100    \* sync.js getCustomers: pageSize: 100
MsPerDay == 86400000    \* 24 * 60 * 60 * 1000

Min(a, b) == IF a <= b THEN a ELSE b
Max(a, b) == IF a >= b THEN a ELSE b

\* The clock advances in half seconds, so Math.floor(now / 1000) matters.
TickMs == MsPerSec \div 2
\* Date.now() of the first observed instant: two seconds into a day.
BaseMs == MsPerDay + 2 * MsPerSec

Requests == 1..MaxRequests
Resets == 1..MaxResets

\* ------------------------------------------------------------ values
NoCursor == 0                       \* null cursor; provider cursors are >= 1
NoFile == [exists |-> FALSE]        \* STATE_FILE absent
Torn == [exists |-> TRUE, torn |-> TRUE]   \* a file written in part: no JSON
NoResult == [null |-> TRUE]         \* lastSyncResult = null
NoRet == [pending |-> TRUE]         \* the promise of a call is not settled
NoPhone == "none"                   \* external_number absent
NoNormal == "null"                  \* normalizePhone returned null

NoError == [undefined |-> TRUE]     \* lastError before any attempt failed

\* No call of retry() or of upsertCalls() is being followed.
IdleRetry ==
  [pc |-> "idle", options |-> <<>>, attempt |-> 0, invocations |-> 0,
   delays |-> <<>>, lastError |-> NoError, ret |-> NoRet]
IdleUpsert ==
  [pc |-> "idle", calls |-> <<>>, chunks |-> <<>>, index |-> 0,
   requests |-> <<>>, paces |-> <<>>, ret |-> NoRet]

NoOffset == 0                       \* no offset in the response; offsets are >= 1
IdleLoader ==
  [pc |-> "idle", offset |-> NoOffset, customers |-> <<>>, fetches |-> 0]

AlreadyMsg == "Sync already in progress"
ResetBusyMsg == "Cannot reset state while sync is in progress"

VARIABLES
  config,          \* the env-derived configuration object
  feed,            \* the provider's calls, in the order it returns them
  customers,       \* the Airtable customers table
  provider,        \* how the provider pages its answers (ProviderModes)
  io,              \* the socket server: whether an emit may throw
  clock,           \* the latest value Date.now() has returned, ms
  isSyncing, lastSyncResult, syncHistory,      \* SyncEngine fields
  events,          \* what io.to('sync-updates').emit sent, in order
  stateFile,       \* STATE_FILE
  tmpFile,         \* STATE_FILE.tmp
  dest,            \* Airtable calls table, by 'Call ID'
  runs,            \* run() invocations: position and locals of sync()
  resets,          \* resetState() invocations
  accepted,        \* number of runs accepted so far (identity of a run)
  attempted,       \* ids of the calls handed to upsertCalls so far
  retrier,         \* a call of retry(fn, operation, options): position and locals
  upserter,        \* a call of AirtableClient.upsertCalls(calls) followed chunk by chunk
  loader           \* a call of AirtableClient.getCustomers() followed page by page

envVars == <<config, feed, customers, provider, io>>
engineVars == <<isSyncing, lastSyncResult, syncHistory, events>>
storeVars == <<stateFile, tmpFile>>
clientVars == <<retrier, upserter, loader>>
vars == <<config, feed, customers, provider, io, clock, isSyncing, lastSyncResult, syncHistory,
          events, stateFile, tmpFile, dest, runs, resets, accepted, attempted,
          retrier, upserter, loader>>

\* ------------------------------------------------------- environment
\* Raw phone strings that occur, and what libphonenumber makes of them
\* with the default region SG.
NormalizePhone(number) ==
  CASE number = NoPhone -> NoNormal             \* if (!number) return null
    [] number = "+6581234567" -> "+6581234567"
    [] number = "81234567" -> "+6581234567"     \* national form, region SG
    [] number = "90000000" -> "+6590000000"
    [] OTHER -> NoNormal                        \* parse failure is caught

NormalPhones == {"+6581234567", "+6590000000"}

PhoneOfCall(k) ==
  CASE k % 4 = 1 -> "+6581234567"
    [] k % 4 = 2 -> "abc"
    [] k % 4 = 3 -> NoPhone
    [] OTHER -> "90000000"

\* The provider's feed: call k started (k - 1) half seconds into the day.
FeedOf(n) ==
  [k \in 1..n |-> [id |-> k,
                   date_started |-> MsPerDay + (k - 1) * TickMs,
                   external_number |-> PhoneOfCall(k)]]

\* Two customers whose phones normalize to the same number.
CustomersTable ==
  << [id |-> "recA", phone |-> "81234567"],
     [id |-> "recB", phone |-> "+6581234567"] >>

NoTime == [unset |-> TRUE]            \* the variable is not set
NoTimeRange == [start |-> NoTime, end |-> NoTime]

Configs ==
  [ valid : BOOLEAN,                      \* the three required variables are set
    daysBack : {0},                       \* DAYS_BACK: real-time mode
    realtimeOnly : {FALSE},               \* REALTIME_ONLY
    backfillGraceSeconds : {1},           \* BACKFILL_GRACE_SECONDS
    pageSize : {Min(1, PageSizeCap)},     \* PAGE_SIZE=1: one call a page
    timeRange : {NoTimeRange},            \* TIME_RANGE_START / TIME_RANGE_END
    newYork : {TRUE},                     \* TIME_RANGE_TIMEZONE names New_York
    tzOffsetHours : {5},                  \* what the tz database says for it
    month : {11}, dayOfMonth : {5} ]      \* server-local calendar date

\* ------------------------------------------------------ StateManager
GetLastSynced(file) ==
  IF file.exists /\ file # Torn THEN file.lastSyncedEpochS ELSE 0

GetFullState(file) ==
  IF file.exists /\ file # Torn THEN [lastSyncedEpochS |-> file.lastSyncedEpochS]
  ELSE [null |-> TRUE]

\* The record setLastSynced writes; lastSyncedISO and updatedAt, which nothing
\* reads back, are left out.
StateRecord(epochSeconds) ==
  [exists |-> TRUE, lastSyncedEpochS |-> epochSeconds]

\* ---------------------------------------------------- window resolver
HasTimeRangeConfig(cfg) ==
  cfg.timeRange.start # NoTime /\ cfg.timeRange.end # NoTime

GetStartOfToday(t) == t - (t % MsPerDay)

IsDaylightSavingTime(month, dayOfMonth) ==
  IF month >= 4 /\ month <= 10 THEN TRUE
  ELSE IF month = 12 \/ month = 1 \/ month = 2 THEN FALSE
  ELSE IF month = 3 THEN dayOfMonth >= 10
  ELSE IF month = 11 THEN dayOfMonth < 3
  ELSE FALSE

MsPerHour == 3600000
MsPerMinute == 60000

\* The range as configured, its end not held back to the present.
GetTimeRangeWindowUnclamped(cfg, t) ==
  LET tzNow == t - cfg.tzOffsetHours * MsPerHour
      tzDay == tzNow - (tzNow % MsPerDay)
      isDST == IsDaylightSavingTime(cfg.month, cfg.dayOfMonth)
      offsetMs == (IF cfg.newYork THEN (IF isDST THEN 4 ELSE 5) ELSE 0) * MsPerHour
  IN [start |-> tzDay + cfg.timeRange.start.hour * MsPerHour
                  + cfg.timeRange.start.minute * MsPerMinute + offsetMs,
      end |-> tzDay + cfg.timeRange.end.hour * MsPerHour
                  + cfg.timeRange.end.minute * MsPerMinute + offsetMs]

\* timeRange.start and .end are [hour, minute] records when configured.
GetTimeRangeWindow(cfg, t) ==
  LET tzNow == t - cfg.tzOffsetHours * MsPerHour
      tzDay == tzNow - (tzNow % MsPerDay)
      isDST == IsDaylightSavingTime(cfg.month, cfg.dayOfMonth)
      offsetHours == IF cfg.newYork THEN (IF isDST THEN 4 ELSE 5) ELSE 0
      offsetMs == offsetHours * MsPerHour
      startTimestamp == tzDay + cfg.timeRange.start.hour * MsPerHour
                          + cfg.timeRange.start.minute * MsPerMinute + offsetMs
      endTimestamp == tzDay + cfg.timeRange.end.hour * MsPerHour
                          + cfg.timeRange.end.minute * MsPerMinute + offsetMs
  IN [start |-> startTimestamp, end |-> Min(endTimestamp, t)]

\* The real-time window begun at the watermark itself, the grace left out.
ResolveWindowNoGrace(cfg, now, t, lastSyncedMs) ==
  IF HasTimeRangeConfig(cfg) THEN GetTimeRangeWindow(cfg, t)
  ELSE [start |-> IF lastSyncedMs > 0 THEN lastSyncedMs ELSE GetStartOfToday(t),
        end |-> now]

\* The window sync() queries, from now and the watermark it has read; t is
\* what the clock shows when getTimeRangeWindow() and getStartOfToday() read it
\* themselves, after the watermark was awaited.
ResolveWindow(cfg, now, t, lastSyncedMs) ==
  LET backfillGraceMs == cfg.backfillGraceSeconds * MsPerSec
      daysBackMs == cfg.daysBack * MsPerDay
  IN IF HasTimeRangeConfig(cfg)
       THEN GetTimeRangeWindow(cfg, t)
     ELSE IF cfg.realtimeOnly \/ cfg.daysBack = 0
       THEN [start |-> IF lastSyncedMs > 0 THEN lastSyncedMs - backfillGraceMs
                       ELSE GetStartOfToday(t),
             end |-> now]
     ELSE [start |-> Max(now - daysBackMs,
                         IF lastSyncedMs > 0 THEN lastSyncedMs - backfillGraceMs
                         ELSE now - daysBackMs),
           end |-> now]

\* ------------------------------------------------------ DialpadClient
\* The calls of the feed started in [startedAfter, startedBefore).
WindowCalls(startedAfter, startedBefore) ==
  SelectSeq(feed, LAMBDA c : startedAfter <= c.date_started
                             /\ c.date_started < startedBefore)

\* How the provider pages the calls of a window:
\*   faithful   a cursor comes with a page exactly when calls remain after it
\*   emptyPage  the first page is empty and carries the cursor of the calls
\*   endless    every page carries a cursor; the calls come round again
ProviderModes == {"faithful", "emptyPage", "endless"}

\* response.data of GET /api/v2/call for the window, cursor and limit.
ProviderPage(all, cursor, limit) ==
  LET from == IF cursor = NoCursor THEN 1 ELSE cursor
      to == Min(from + limit - 1, Len(all))
      rest == [items |-> SubSeq(all, from, to),
               cursor |-> IF to < Len(all) THEN to + 1 ELSE NoCursor]
  IN CASE provider = "emptyPage" /\ cursor = NoCursor ->
            [items |-> <<>>, cursor |-> 1]
       [] provider = "endless" /\ Len(all) > 0 ->
            [items |-> [k \in 1..limit |-> all[((from + k - 2) % Len(all)) + 1]],
             cursor |-> from + limit]
       [] OTHER -> rest

\* getCalls: its guard on the window, then the provider's answer with
\* items || [] and cursor || null.
GetCalls(startedAfter, startedBefore, cursor, limit) ==
  IF startedAfter >= startedBefore THEN [items |-> <<>>, cursor |-> NoCursor]
  ELSE ProviderPage(WindowCalls(startedAfter, startedBefore), cursor, limit)

\* --------------------------------------------- customers and records
NoCustomer == "none"

\* The map in which the first entry of a phone is kept.
BuildCustomerPhoneMapFirst(cs, map) ==
  [n \in DOMAIN map |->
     LET places == {k \in 1..Len(cs) : /\ cs[k].phone # NoPhone
                                       /\ NormalizePhone(cs[k].phone) = n}
     IN IF places = {} THEN map[n]
        ELSE cs[CHOOSE k \in places : \A m \in places : k <= m].id]

\* customerPhoneMap after the loop over the customers, which does
\* map.set(normalized, customer.id) for each customer that has a phone that
\* parses: at a phone the map holds the id set last, the later entry wins.
BuildCustomerPhoneMap(cs, map) ==
  [n \in DOMAIN map |->
     LET places == {k \in 1..Len(cs) : /\ cs[k].phone # NoPhone
                                       /\ NormalizePhone(cs[k].phone) # NoNormal
                                       /\ NormalizePhone(cs[k].phone) = n}
     IN IF places = {} THEN map[n]
        ELSE cs[CHOOSE k \in places : \A m \in places : m <= k].id]

EmptyPhoneMap == [p \in NormalPhones |-> NoCustomer]

\* The match decided by the parse alone, the directory not looked up.
IsMatchedParsed(call, map) ==
  NormalizePhone(call.external_number) # NoNormal

IsMatched(call, map) ==
  LET normalizedPhone == NormalizePhone(call.external_number)
  IN normalizedPhone # NoNormal /\ map[normalizedPhone] # NoCustomer

Unset == "unset"

\* callRecord of one call: the customer link or the unmatched phone.
CallRecord(call, map) ==
  [callId |-> call.id,
   startTime |-> call.date_started,
   customer |-> IF IsMatched(call, map)
                THEN <<map[NormalizePhone(call.external_number)]>> ELSE <<>>,
   unmatchedPhone |-> IF IsMatched(call, map) THEN Unset
                      ELSE IF call.external_number # NoPhone
                           THEN call.external_number ELSE "Unknown"]

MatchedCount(calls, map) ==
  Cardinality({k \in 1..Len(calls) : IsMatched(calls[k], map)})

NoRecord == <<>>                      \* no row of the table has the id
CallIds == 1..(MaxFeed + 1)

\* ------------------------------------------------------------- Init
NewRun ==
  [pc |-> "new", run |-> 0, phoneMap |-> EmptyPhoneMap,
   now |-> 0, startedAfter |-> 0, startedBefore |-> 0,
   cursor |-> NoCursor, nextCursor |-> NoCursor,
   totalCalls |-> 0, matchedCalls |-> 0, pageCount |-> 0,
   callsToUpsert |-> <<>>, ret |-> NoRet,
   fetches |-> 0, upserts |-> 0, stateWrites |-> 0, passed |-> <<>>]

NewReset == [pc |-> "new", raced |-> FALSE, ret |-> NoRet]

\* What an earlier run that failed to connect has left in the history.
PriorResult(n) ==
  [result |-> [success |-> FALSE, error |-> "Dialpad API connection failed"], run |-> n]

\* The engine after `prior` runs that failed at the connection test: no
\* watermark, nothing written, the history holding their results.
InitAfter(prior) ==
  /\ config \in Configs
  /\ feed = FeedOf(MaxFeed)
  /\ customers = CustomersTable
  /\ provider = "faithful"
  /\ clock = BaseMs
  /\ isSyncing = FALSE
  /\ lastSyncResult = IF prior = 0 THEN NoResult ELSE PriorResult(prior)
  /\ syncHistory = [k \in 1..prior |-> PriorResult(prior + 1 - k)]
  /\ events = <<>>
  /\ stateFile = NoFile
  /\ tmpFile = NoFile
  /\ dest = [id \in CallIds |-> NoRecord]
  /\ runs = [i \in Requests |-> NewRun]
  /\ resets = [j \in Resets |-> NewReset]
  /\ accepted = prior
  /\ attempted = {}
  /\ loader = IdleLoader

\* The state after construction.
Init ==
  InitAfter(0) /\ io = "ok" /\ retrier = IdleRetry /\ upserter = IdleUpsert

\* The state after HistoryCap runs that failed.
InitFullHistory ==
  InitAfter(HistoryCap) /\ io = "ok" /\ retrier = IdleRetry /\ upserter = IdleUpsert

\* -------------------------------------------------------- SyncEngine
InFlight(i) == runs[i].pc \notin {"new", "rejected", "returned", "thrown", "crashed"}
Running == {i \in Requests : InFlight(i)}
ResetInFlight(j) == resets[j].pc \in {"pathExists", "remove"}

\* The guard of run() left out: every request is accepted.
AlreadyInProgressNever == FALSE

\* if (this.isSyncing) return { error: 'Sync already in progress' }
AlreadyInProgress == isSyncing

\* this.syncHistory.unshift(result), cut to the first 100 (success path)
UnshiftCapped(history, result) ==
  LET h == <<result>> \o history
  IN IF Len(h) > HistoryCap THEN SubSeq(h, 1, HistoryCap) ELSE h

\* The error result put at the end of the history.
PushError(history, errorResult) == history \o <<errorResult>>

\* this.syncHistory.unshift(errorResult) (failure path)
UnshiftError(history, errorResult) == <<errorResult>> \o history

\* One emit on the 'sync-updates' room, by the run numbered n.
Event(type, i, n, payload) == [type |-> type, run |-> n, payload |-> payload]

\* What the locals of sync() leave behind when run() settles.
Settled(i, pc, ret) ==
  [NewRun EXCEPT !.pc = pc, !.run = runs[i].run, !.ret = ret]

\* The result object sync() returns after the pagination loop.
SyncResult(totalCalls, matchedCalls, pageCount) ==
  [success |-> TRUE, totalCalls |-> totalCalls, matchedCalls |-> matchedCalls,
   unmatchedCalls |-> totalCalls - matchedCalls, pagesProcessed |-> pageCount]

NoWindowResult ==
  [success |-> TRUE, totalCalls |-> 0, matchedCalls |-> 0, unmatchedCalls |-> 0,
   pagesProcessed |-> 0,
   note |-> "No valid time window - check your time range configuration"]

\* lastSyncResult = { ...result, duration, timestamp }: a new object per run,
\* told apart here by the number of the run that made it.
Stamped(result, n) == [result |-> result, run |-> n]

\* The error's message replaced by a fixed text in the stored result.
ErrorResultGeneric(message, n) ==
  [result |-> [success |-> FALSE, error |-> "Sync failed"], run |-> n]

\* errorResult = { success: false, error: error.message, duration, timestamp }
ErrorResult(message, n) ==
  [result |-> [success |-> FALSE, error |-> message], run |-> n]

\* What this.io.to('sync-updates').emit(...) may do: TRUE it returns, FALSE
\* it throws.
EmitOutcomes == IF io = "ok" THEN {TRUE} ELSE BOOLEAN
EmitError == "emit failed"

\* run(), from the return of sync() to the end of finally.  When the emit of
\* sync:completed throws, the result is stored already; the catch stores the
\* error result on top, emits sync:failed, and the error is thrown.
Complete(i, result) ==
  LET r == Stamped(result, runs[i].run)
      e == ErrorResult(EmitError, runs[i].run)
  IN \E completed \in EmitOutcomes :
       IF completed
       THEN /\ lastSyncResult' = r
            /\ syncHistory' = UnshiftCapped(syncHistory, r)
            /\ events' = Append(events, Event("sync:completed", i, runs[i].run, r))
            /\ isSyncing' = FALSE
            /\ runs' = [runs EXCEPT ![i] = Settled(i, "returned", r)]
       ELSE \E failed \in EmitOutcomes :
            /\ lastSyncResult' = e
            /\ syncHistory' = UnshiftError(UnshiftCapped(syncHistory, r), e)
            /\ events' = IF failed
                         THEN Append(events, Event("sync:failed", i, runs[i].run, e))
                         ELSE events
            /\ isSyncing' = FALSE
            /\ runs' = [runs EXCEPT ![i] = Settled(i, "thrown", [thrown |-> EmitError])]

\* The failure path without its notification.
FailAsSilent(i, n, message, log) ==
  LET e == ErrorResult(message, n)
  IN /\ lastSyncResult' = e
     /\ syncHistory' = UnshiftError(syncHistory, e)
     /\ events' = log
     /\ isSyncing' = FALSE
     /\ runs' = [runs EXCEPT ![i] = [Settled(i, "thrown", [thrown |-> message])
                                       EXCEPT !.run = n]]

\* run(), from the catch of what sync() threw to the end of finally; n is the
\* run's number and log what was emitted before.
FailAs(i, n, message, log) ==
  LET e == ErrorResult(message, n)
  IN \E failed \in EmitOutcomes :
     /\ lastSyncResult' = e
     /\ syncHistory' = UnshiftError(syncHistory, e)
     /\ events' = IF failed THEN Append(log, Event("sync:failed", i, n, e)) ELSE log
     /\ isSyncing' = FALSE
     /\ runs' = [runs EXCEPT ![i] =
                   [Settled(i, "thrown",
                            [thrown |-> IF failed THEN message ELSE EmitError])
                      EXCEPT !.run = n]]

Fail(i, message) == FailAs(i, runs[i].run, message, events)

\* getStatus(), when nothing runs between its read of the file and its return.
GetStatus ==
  [isSyncing |-> isSyncing,
   lastSync |-> lastSyncResult,
   state |-> GetFullState(stateFile),
   history |-> SubSeq(syncHistory, 1, Min(StatusHistoryLen, Len(syncHistory)))]

\* The calls of the window a run has resolved.
WindowIds(i) ==
  LET w == WindowCalls(runs[i].startedAfter, runs[i].startedBefore)
  IN {w[k].id : k \in 1..Len(w)}

\* Request i is the i-th call of run(); reset j the j-th of resetState().
IsNextRequest(i) == runs[i].pc = "new" /\ \A k \in 1..(i - 1) : runs[k].pc # "new"
IsNextReset(j) == resets[j].pc = "new" /\ \A k \in 1..(j - 1) : resets[k].pc # "new"

\* A rejected request recorded in the history as a failed run.
RunRejectedRecorded(i) ==
  /\ IsNextRequest(i)
  /\ AlreadyInProgress
  /\ runs' = [runs EXCEPT ![i].pc = "rejected", ![i].ret = [error |-> AlreadyMsg]]
  /\ lastSyncResult' = ErrorResult(AlreadyMsg, 0)
  /\ syncHistory' = UnshiftError(syncHistory, ErrorResult(AlreadyMsg, 0))
  /\ UNCHANGED <<envVars, clientVars, clock, isSyncing, events, storeVars, dest, resets, accepted,
                 attempted>>

\* run() called while a run is in progress.
RunRejected(i) ==
  /\ IsNextRequest(i)
  /\ AlreadyInProgress
  /\ runs' = [runs EXCEPT ![i].pc = "rejected", ![i].ret = [error |-> AlreadyMsg]]
  /\ UNCHANGED <<envVars, clientVars, clock, engineVars, storeVars, dest, resets, accepted,
                 attempted>>

\* run() accepted: isSyncing, sync:started, and sync() up to its first await.
RunAccepted(i) ==
  /\ IsNextRequest(i)
  /\ ~AlreadyInProgress
  /\ config.valid
  /\ isSyncing' = TRUE
  /\ accepted' = accepted + 1
  /\ events' = Append(events, Event("sync:started", i, accepted + 1, NoResult))
  /\ runs' = [runs EXCEPT ![i].pc = "connect", ![i].run = accepted + 1]
  /\ resets' = [j \in Resets |->
                  IF ResetInFlight(j) THEN [resets[j] EXCEPT !.raced = TRUE]
                  ELSE resets[j]]
  /\ UNCHANGED <<envVars, clientVars, clock, lastSyncResult, syncHistory, storeVars, dest,
                 attempted>>

\* validateConfig() letting a missing variable pass: the run goes on to the
\* connection tests.
RunConfigErrorLate(i) ==
  /\ IsNextRequest(i)
  /\ ~AlreadyInProgress
  /\ ~config.valid
  /\ isSyncing' = TRUE
  /\ accepted' = accepted + 1
  /\ events' = Append(events, Event("sync:started", i, accepted + 1, NoResult))
  /\ runs' = [runs EXCEPT ![i].pc = "connect", ![i].run = accepted + 1]
  /\ resets' = [j \in Resets |->
                  IF ResetInFlight(j) THEN [resets[j] EXCEPT !.raced = TRUE]
                  ELSE resets[j]]
  /\ UNCHANGED <<envVars, clientVars, clock, lastSyncResult, syncHistory, storeVars, dest,
                 attempted>>

\* run() accepted and the emit of sync:started, which is before the try,
\* throws: run() rejects with that error; neither catch nor finally runs.
RunStartedEmitFails(i) ==
  /\ IsNextRequest(i)
  /\ ~AlreadyInProgress
  /\ FALSE \in EmitOutcomes
  /\ isSyncing' = TRUE
  /\ accepted' = accepted + 1
  /\ runs' = [runs EXCEPT ![i] = [NewRun EXCEPT !.pc = "thrown",
                                                !.run = accepted + 1,
                                                !.ret = [thrown |-> EmitError]]]
  /\ resets' = [j \in Resets |->
                  IF ResetInFlight(j) THEN [resets[j] EXCEPT !.raced = TRUE]
                  ELSE resets[j]]
  /\ UNCHANGED <<envVars, clientVars, clock, lastSyncResult, syncHistory, events,
                 storeVars, dest, attempted>>

\* run() accepted, validateConfig() throws: the catch and finally follow
\* before any other handler runs.
RunConfigError(i) ==
  /\ IsNextRequest(i)
  /\ ~AlreadyInProgress
  /\ ~config.valid
  /\ accepted' = accepted + 1
  /\ FailAs(i, accepted + 1, "Missing required environment variables",
            Append(events, Event("sync:started", i, accepted + 1, NoResult)))
  /\ UNCHANGED <<envVars, clientVars, clock, storeVars, dest, resets, attempted>>

\* sync() from the connection tests to the watermark read: await
\* dialpad.testConnection(), await airtable.testConnection(), await
\* airtable.getCustomers(), the phone map, now = Date.now().  The three awaits
\* touch nothing another handler reads or writes, so they are one step; any of
\* the three may throw.
ConnectErrors ==
  {"Dialpad API connection failed", "Airtable connection failed",
   "Airtable getCustomers failed"}

\* Date.now() never goes back: it returns the latest value or a later one.
ClockReadings ==
  {clock + k * TickMs : k \in 0..((BaseMs + MaxTicks * TickMs - clock) \div TickMs)}

Connect(i) ==
  /\ runs[i].pc = "connect"
  /\ \E outcome \in {"ok"} \cup ConnectErrors :
       IF outcome = "ok"
       THEN /\ \E t \in ClockReadings :
                 /\ clock' = t
                 /\ runs' = [runs EXCEPT
                      ![i].pc = "getLastSynced",
                      ![i].phoneMap = BuildCustomerPhoneMap(customers, EmptyPhoneMap),
                      ![i].now = t]
            /\ UNCHANGED engineVars
       ELSE Fail(i, outcome) /\ UNCHANGED clock
  /\ UNCHANGED <<envVars, clientVars, storeVars, dest, resets, accepted, attempted>>

\* The window taken as it comes, without the test start >= end.
ResolveAndFetchUnguarded(i) ==
  /\ runs[i].pc = "getLastSynced"
  /\ \E t \in (IF HasTimeRangeConfig(config) THEN ClockReadings ELSE {clock}) :
       LET lastSyncedMs == GetLastSynced(stateFile) * MsPerSec
           w == ResolveWindow(config, runs[i].now, t, lastSyncedMs)
       IN /\ clock' = t
          /\ runs' = [runs EXCEPT ![i].pc = "getCalls",
                        ![i].startedAfter = w.start, ![i].startedBefore = w.end,
                        ![i].cursor = NoCursor, ![i].pageCount = 1,
                        ![i].fetches = 1, ![i].passed = <<NoCursor>>]
  /\ UNCHANGED <<envVars, clientVars, engineVars, storeVars, dest, resets, accepted, attempted>>

\* await state.getLastSynced(), the window, the first getCalls request
ResolveAndFetch(i) ==
  /\ runs[i].pc = "getLastSynced"
  /\ \E t \in (IF HasTimeRangeConfig(config) THEN ClockReadings ELSE {clock}) :
       LET lastSyncedMs == GetLastSynced(stateFile) * MsPerSec
           w == ResolveWindow(config, runs[i].now, t, lastSyncedMs)
       IN /\ clock' = t
          /\ IF w.start >= w.end
             THEN Complete(i, NoWindowResult)
             ELSE /\ runs' = [runs EXCEPT ![i].pc = "getCalls",
                                ![i].startedAfter = w.start,
                                ![i].startedBefore = w.end,
                                ![i].cursor = NoCursor, ![i].pageCount = 1,
                                ![i].fetches = 1, ![i].passed = <<NoCursor>>]
                  /\ UNCHANGED engineVars
  /\ UNCHANGED <<envVars, clientVars, storeVars, dest, resets, accepted, attempted>>

\* A failed fetch treated alike on every page: the loop is left and the run
\* returns what it has.
FetchFailsBreaks(i) ==
  /\ runs[i].pc = "getCalls"
  /\ Complete(i, SyncResult(runs[i].totalCalls, runs[i].matchedCalls,
                            runs[i].pageCount))
  /\ UNCHANGED <<envVars, clientVars, clock, storeVars, dest, resets, accepted, attempted>>

\* A failed fetch rethrown on every page, not on the first alone.
FetchFailsThrows(i) ==
  /\ runs[i].pc = "getCalls"
  /\ Fail(i, "Dialpad getCalls failed")
  /\ UNCHANGED <<envVars, clientVars, clock, storeVars, dest, resets, accepted, attempted>>

\* await dialpad.getCalls(...) throws
FetchFails(i) ==
  /\ runs[i].pc = "getCalls"
  /\ IF runs[i].pageCount > 1
     THEN Complete(i, SyncResult(runs[i].totalCalls, runs[i].matchedCalls,
                                 runs[i].pageCount))
     ELSE Fail(i, "Dialpad getCalls failed")
  /\ UNCHANGED <<envVars, clientVars, clock, storeVars, dest, resets, accepted, attempted>>

\* An empty page handled like any other: nothing to upsert, then the state
\* write.
FetchPageStampsEmpty(i) ==
  /\ runs[i].pc = "getCalls"
  /\ LET page == GetCalls(runs[i].startedAfter, runs[i].startedBefore,
                          runs[i].cursor, config.pageSize)
         calls == page.items
     IN /\ runs' = [runs EXCEPT
             ![i].pc = IF Len(calls) = 0 THEN "writeFile" ELSE "upsertCalls",
             ![i].nextCursor = page.cursor,
             ![i].callsToUpsert =
                [k \in 1..Len(calls) |-> CallRecord(calls[k], runs[i].phoneMap)],
             ![i].matchedCalls = @ + MatchedCount(calls, runs[i].phoneMap),
             ![i].totalCalls = @ + Len(calls)]
        /\ UNCHANGED engineVars
  /\ UNCHANGED <<envVars, clientVars, clock, storeVars, dest, resets, accepted, attempted>>

\* await dialpad.getCalls(...) returns a page; its calls are transformed
FetchPage(i) ==
  /\ runs[i].pc = "getCalls"
  /\ LET page == GetCalls(runs[i].startedAfter, runs[i].startedBefore,
                          runs[i].cursor, config.pageSize)
         calls == page.items
     IN IF Len(calls) = 0
        THEN /\ Complete(i, SyncResult(runs[i].totalCalls, runs[i].matchedCalls,
                                       runs[i].pageCount))
        ELSE /\ runs' = [runs EXCEPT
                  ![i].pc = "upsertCalls",
                  ![i].nextCursor = page.cursor,
                  ![i].callsToUpsert =
                     [k \in 1..Len(calls) |-> CallRecord(calls[k], runs[i].phoneMap)],
                  ![i].matchedCalls = @ + MatchedCount(calls, runs[i].phoneMap),
                  ![i].totalCalls = @ + Len(calls)]
             /\ UNCHANGED engineVars
  /\ UNCHANGED <<envVars, clientVars, clock, storeVars, dest, resets, accepted, attempted>>

\* ---------------------------------------------------- AirtableClient
ChunkCount(n) == (n + ChunkSize - 1) \div ChunkSize

\* PATCH of a row: the fields the record carries are written, the others
\* are left as they were.
MergeFields(row, record) ==
  [callId |-> record.callId,
   startTime |-> record.startTime,
   customer |-> IF record.customer # <<>> THEN record.customer ELSE row.customer,
   unmatchedPhone |-> IF record.unmatchedPhone # Unset
                      THEN record.unmatchedPhone ELSE row.unmatchedPhone]

\* performUpsert with fieldsToMergeOn ['Call ID']: the row of that id is
\* updated, and created when there is none.
UpsertRecord(rows, record) ==
  IF rows = <<>> THEN <<record>>
  ELSE <<MergeFields(Head(rows), record)>> \o Tail(rows)

RECURSIVE UpsertAll(_, _)
UpsertAll(table, records) ==
  IF records = <<>> THEN table
  ELSE UpsertAll([table EXCEPT ![Head(records).callId] =
                                  UpsertRecord(@, Head(records))],
                 Tail(records))

\* The records created as new rows, nothing merged on 'Call ID'.
RECURSIVE CreateAll(_, _)
CreateAll(table, records) ==
  IF records = <<>> THEN table
  ELSE CreateAll([table EXCEPT ![Head(records).callId] = <<Head(records)>> \o @],
                 Tail(records))

Created(table, records, chunks) ==
  CreateAll(table, SubSeq(records, 1, Min(chunks * ChunkSize, Len(records))))

\* The table after the first `chunks` chunks of `records` were upserted on
\* 'Call ID'.
Upserted(table, records, chunks) ==
  UpsertAll(table, SubSeq(records, 1, Min(chunks * ChunkSize, Len(records))))

\* A batch that fails after its retries taken as the failure of the run.
UpsertCallsAborts(i) ==
  /\ runs[i].pc = "upsertCalls"
  /\ \E chunks \in 0..ChunkCount(Len(runs[i].callsToUpsert)) :
       /\ dest' = Upserted(dest, runs[i].callsToUpsert, chunks)
       /\ IF chunks < ChunkCount(Len(runs[i].callsToUpsert))
          THEN Fail(i, "Airtable upsertCalls failed")
          ELSE /\ runs' = [runs EXCEPT ![i].pc = "writeFile", ![i].upserts = @ + 1]
               /\ UNCHANGED engineVars
  /\ attempted' = attempted \cup
       {runs[i].callsToUpsert[k].callId : k \in 1..Len(runs[i].callsToUpsert)}
  /\ UNCHANGED <<envVars, clientVars, clock, storeVars, resets, accepted>>

\* The page's upsert left out: the loop goes straight to the state write.
UpsertCallsSkipped(i) ==
  /\ runs[i].pc = "upsertCalls"
  /\ runs' = [runs EXCEPT ![i].pc = "writeFile"]
  /\ UNCHANGED <<envVars, clientVars, clock, engineVars, storeVars, dest, resets, accepted,
                 attempted>>

\* await airtable.upsertCalls(callsToUpsert) in its try/catch: the chunks go
\* out one after the other until one fails after its retries.
UpsertCalls(i) ==
  /\ runs[i].pc = "upsertCalls"
  /\ \E chunks \in 0..ChunkCount(Len(runs[i].callsToUpsert)) :
       dest' = Upserted(dest, runs[i].callsToUpsert, chunks)
  /\ attempted' = attempted \cup
       {runs[i].callsToUpsert[k].callId : k \in 1..Len(runs[i].callsToUpsert)}
  /\ runs' = [runs EXCEPT ![i].pc = "writeFile", ![i].upserts = @ + 1]
  /\ UNCHANGED <<envVars, clientVars, clock, engineVars, storeVars, resets, accepted>>

\* A failed state write logged and passed over: the loop goes on as after a
\* write that succeeded.
WriteFileSwallows(i) ==
  /\ runs[i].pc = "writeFile"
  /\ \E ok \in BOOLEAN :
       IF ok THEN /\ tmpFile' = StateRecord(runs[i].now \div MsPerSec)
                  /\ runs' = [runs EXCEPT ![i].pc = "rename"]
                  /\ UNCHANGED engineVars
       ELSE /\ UNCHANGED tmpFile
            /\ IF runs[i].pageCount >= MaxPages \/ runs[i].nextCursor = NoCursor
               THEN Complete(i, SyncResult(runs[i].totalCalls, runs[i].matchedCalls,
                                           runs[i].pageCount))
               ELSE /\ runs' = [runs EXCEPT ![i].pc = "getCalls",
                                  ![i].cursor = runs[i].nextCursor,
                                  ![i].callsToUpsert = <<>>,
                                  ![i].pageCount = @ + 1,
                                  ![i].fetches = @ + 1,
                                  ![i].passed = Append(@, runs[i].nextCursor)]
                    /\ UNCHANGED engineVars
  /\ UNCHANGED <<envVars, clientVars, clock, stateFile, dest, resets, accepted, attempted>>

\* The watermark taken from the start of the window the run fetched, not
\* from the instant the run started.
WriteFileWindowStart(i) ==
  /\ runs[i].pc = "writeFile"
  /\ \E ok \in BOOLEAN :
       IF ok THEN /\ tmpFile' = StateRecord(runs[i].startedAfter \div MsPerSec)
                  /\ runs' = [runs EXCEPT ![i].pc = "rename"]
                  /\ UNCHANGED engineVars
       ELSE /\ Fail(i, "Failed to save state")
            /\ UNCHANGED tmpFile
  /\ UNCHANGED <<envVars, clientVars, clock, stateFile, dest, resets, accepted, attempted>>

\* state.setLastSynced(Math.floor(now / 1000)): await fs.writeFile(tmpFile)
WriteFile(i) ==
  /\ runs[i].pc = "writeFile"
  /\ \E ok \in BOOLEAN :
       IF ok THEN /\ tmpFile' = StateRecord(runs[i].now \div MsPerSec)
                  /\ runs' = [runs EXCEPT ![i].pc = "rename"]
                  /\ UNCHANGED engineVars
       ELSE /\ Fail(i, "Failed to save state")
            /\ UNCHANGED tmpFile
  /\ UNCHANGED <<envVars, clientVars, clock, stateFile, dest, resets, accepted, attempted>>

\* The cursor of the page before passed on again.
NextCursorStale(i) == runs[i].cursor

\* cursor = nextCursor
NextCursorOf(i) == runs[i].nextCursor

\* The loop left only when no cursor came.
LoopEndsAtNull(i) == runs[i].nextCursor = NoCursor

\* if (pageCount >= maxPages) break; ... while (cursor)
LoopEnds(i) == runs[i].pageCount >= MaxPages \/ NextCursorOf(i) = NoCursor

\* setLastSynced: await fs.rename(tmpFile, STATE_FILE); then the end of the
\* loop body: the next cursor, the page limit, the next getCalls request.
Rename(i) ==
  /\ runs[i].pc = "rename"
  /\ \E ok \in BOOLEAN :
       IF ok /\ tmpFile.exists
       THEN /\ stateFile' = tmpFile
            /\ tmpFile' = NoFile
            /\ IF LoopEnds(i)
               THEN /\ Complete(i, SyncResult(runs[i].totalCalls, runs[i].matchedCalls,
                                              runs[i].pageCount))
               ELSE /\ runs' = [runs EXCEPT ![i].pc = "getCalls",
                                  ![i].stateWrites = @ + 1,
                                  ![i].cursor = NextCursorOf(i),
                                  ![i].callsToUpsert = <<>>,
                                  ![i].pageCount = @ + 1,
                                  ![i].fetches = @ + 1,
                                  ![i].passed = Append(@, NextCursorOf(i))]
                    /\ UNCHANGED engineVars
       ELSE /\ Fail(i, "Failed to save state")
            /\ UNCHANGED storeVars
  /\ UNCHANGED <<envVars, clientVars, clock, dest, resets, accepted, attempted>>

\* -------------------------------------------------------- resetState
\* resetState() without its guard: the reset goes ahead during a run.
ResetRejectedProceeds(j) ==
  /\ IsNextReset(j)
  /\ isSyncing
  /\ resets' = [resets EXCEPT ![j].pc = "pathExists"]
  /\ UNCHANGED <<envVars, clientVars, clock, engineVars, storeVars, dest, runs, accepted,
                 attempted>>

\* resetState() called while a run is in progress
ResetRejected(j) ==
  /\ IsNextReset(j)
  /\ isSyncing
  /\ resets' = [resets EXCEPT ![j].pc = "thrown", ![j].ret = [thrown |-> ResetBusyMsg]]
  /\ UNCHANGED <<envVars, clientVars, clock, engineVars, storeVars, dest, runs, accepted,
                 attempted>>

\* resetState() passes its guard and awaits state.reset(): fs.pathExists
ResetCall(j) ==
  /\ IsNextReset(j)
  /\ ~isSyncing
  /\ resets' = [resets EXCEPT ![j].pc = "pathExists"]
  /\ UNCHANGED <<envVars, clientVars, clock, engineVars, storeVars, dest, runs, accepted,
                 attempted>>

\* The reset that forgets to empty the history.
ResetFieldsKeepHistory(j) ==
  /\ lastSyncResult' = NoResult
  /\ syncHistory' = syncHistory
  /\ resets' = [resets EXCEPT ![j].pc = "returned",
                  ![j].ret = [success |-> TRUE, message |-> "State reset successfully"]]

\* this.lastSyncResult = null; this.syncHistory = []; return
ResetFields(j) ==
  /\ lastSyncResult' = NoResult
  /\ syncHistory' = <<>>
  /\ resets' = [resets EXCEPT ![j].pc = "returned",
                  ![j].ret = [success |-> TRUE, message |-> "State reset successfully"]]

\* reset(): fs.pathExists answers
ResetPathExists(j) ==
  /\ resets[j].pc = "pathExists"
  /\ IF stateFile.exists
     THEN /\ resets' = [resets EXCEPT ![j].pc = "remove"]
          /\ UNCHANGED <<lastSyncResult, syncHistory>>
     ELSE ResetFields(j)
  /\ UNCHANGED <<envVars, clientVars, clock, isSyncing, events, storeVars, dest, runs, accepted,
                 attempted>>

\* reset(): await fs.remove(STATE_FILE), then the fields are cleared
ResetRemove(j) ==
  /\ resets[j].pc = "remove"
  /\ \E ok \in BOOLEAN :
       IF ok THEN /\ stateFile' = NoFile
                  /\ ResetFields(j)
       ELSE /\ resets' = [resets EXCEPT ![j].pc = "thrown",
                            ![j].ret = [thrown |-> "Failed to reset state"]]
            /\ UNCHANGED <<stateFile, lastSyncResult, syncHistory>>
  /\ UNCHANGED <<envVars, clientVars, clock, isSyncing, events, tmpFile, dest, runs, accepted,
                 attempted>>

Next ==
  \/ \E i \in Requests : RunRejected(i)
  \/ \E i \in Requests : RunAccepted(i)
  \/ \E i \in Requests : RunConfigError(i)
  \/ \E i \in Requests : Connect(i)
  \/ \E i \in Requests : ResolveAndFetch(i)
  \/ \E i \in Requests : FetchFails(i)
  \/ \E i \in Requests : FetchPage(i)
  \/ \E i \in Requests : UpsertCalls(i)
  \/ \E i \in Requests : WriteFile(i)
  \/ \E i \in Requests : Rename(i)
  \/ \E j \in Resets : ResetRejected(j)
  \/ \E j \in Resets : ResetCall(j)
  \/ \E j \in Resets : ResetPathExists(j)
  \/ \E j \in Resets : ResetRemove(j)

Spec == Init /\ [][Next]_vars

\* The engine with a socket server whose emits may throw.
InitEmit ==
  InitAfter(0) /\ io = "flaky" /\ retrier = IdleRetry /\ upserter = IdleUpsert

NextEmit ==
  \/ Next
  \/ \E i \in Requests : RunStartedEmitFails(i)

SpecEmit == InitEmit /\ [][NextEmit]_vars

SpecFullHistory == InitFullHistory /\ [][Next]_vars

\* ----------------------------------------------------- one run alone
\* DAYS_BACK=0, REALTIME_ONLY and the time range unset, the server in UTC on
\* 5 November, TIME_RANGE_TIMEZONE at its default America/New_York.
RealTime ==
  [valid |-> TRUE, daysBack |-> 0, realtimeOnly |-> FALSE,
   backfillGraceSeconds |-> 1, pageSize |-> Min(1, PageSizeCap),
   timeRange |-> NoTimeRange, newYork |-> TRUE, tzOffsetHours |-> 5,
   month |-> 11, dayOfMonth |-> 5]

HHMM(h, m) == [hour |-> h, minute |-> m]

\* TIME_RANGE_START / TIME_RANGE_END: unset, a range that is over at the first
\* instant (19:00:02 in New York), one that holds it, one still to come.
TimeRanges ==
  {NoTimeRange,
   [start |-> HHMM(10, 0), end |-> HHMM(11, 30)],
   [start |-> HHMM(18, 0), end |-> HHMM(20, 0)],
   [start |-> HHMM(21, 0), end |-> HHMM(22, 0)]}

\* The window settings, alone and several at once.
WindowConfigs ==
  {[RealTime EXCEPT !.daysBack = d, !.realtimeOnly = r,
                    !.backfillGraceSeconds = g, !.timeRange = tr] :
     d \in {0, 1}, r \in BOOLEAN, g \in {0, 1, 300}, tr \in TimeRanges}

\* lastSyncedEpochS an earlier process may have left: one second into the
\* day before, and the first instant itself.
Watermarks == {1, BaseMs \div MsPerSec}

\* A fresh engine (the process has just started) over what earlier processes
\* left on disk; the provider holds one call more than in Init.
InitPipeline ==
  /\ \/ /\ config \in WindowConfigs
        /\ provider = "faithful"
        /\ stateFile \in {NoFile} \cup {StateRecord(w) : w \in Watermarks}
     \/ /\ config = RealTime
        /\ provider \in ProviderModes
        /\ stateFile = NoFile
  /\ feed = FeedOf(MaxFeed + 1)
  /\ customers = CustomersTable
  /\ io = "ok"
  /\ clock = BaseMs
  /\ isSyncing = FALSE
  /\ lastSyncResult = NoResult
  /\ syncHistory = <<>>
  /\ events = <<>>
  /\ tmpFile = NoFile
  /\ dest = [id \in CallIds |-> NoRecord]
  /\ runs = [i \in Requests |-> NewRun]
  /\ resets = [j \in Resets |-> NewReset]
  /\ accepted = 0
  /\ attempted = {}
  /\ retrier = IdleRetry
  /\ upserter = IdleUpsert
  /\ loader = IdleLoader

\* The first call of run() and its pipeline, nothing else calling the engine.
NextPipeline ==
  \/ RunAccepted(1)
  \/ Connect(1)
  \/ ResolveAndFetch(1)
  \/ FetchFails(1)
  \/ FetchPage(1)
  \/ UpsertCalls(1)
  \/ WriteFile(1)
  \/ Rename(1)

SpecPipeline == InitPipeline /\ [][NextPipeline]_vars

\* ------------------------------------------- records and their matching
\* The raw external numbers a call may come with.
RawPhones == {"+6581234567", "90000000", "abc", NoPhone}

\* A feed like FeedOf whose calls carry the given external numbers.
FeedWith(phones) ==
  [k \in 1..Len(phones) |-> [id |-> k,
                             date_started |-> MsPerDay + (k - 1) * TickMs,
                             external_number |-> phones[k]]]

\* Customers tables: none, the two of CustomersTable, one more customer, and
\* one whose phone does not parse.
CustomerTables ==
  { <<>>,
    CustomersTable,
    CustomersTable \o << [id |-> "recC", phone |-> "90000000"] >>,
    << [id |-> "recD", phone |-> "abc"], [id |-> "recE", phone |-> NoPhone] >> }

\* The calls table after every call of the feed was delivered under the
\* customers table `table`.
Delivered(calls, table) ==
  [id \in CallIds |->
     IF id \in 1..Len(calls)
     THEN <<CallRecord(calls[id], BuildCustomerPhoneMap(table, EmptyPhoneMap))>>
     ELSE NoRecord]

\* One run in real-time mode with pages of two calls, over any external
\* numbers and customers; the calls table is empty or holds what an earlier
\* run delivered when the customers were others.
InitRecords ==
  /\ config = [RealTime EXCEPT !.pageSize = Min(2, PageSizeCap)]
  /\ provider = "faithful"
  /\ feed \in {FeedWith(phones) : phones \in [1..(MaxFeed + 1) -> RawPhones]}
  /\ customers \in CustomerTables
  /\ dest \in {[id \in CallIds |-> NoRecord]}
              \cup {Delivered(feed, table) : table \in CustomerTables}
  /\ stateFile = NoFile
  /\ io = "ok"
  /\ clock = BaseMs
  /\ isSyncing = FALSE
  /\ lastSyncResult = NoResult
  /\ syncHistory = <<>>
  /\ events = <<>>
  /\ tmpFile = NoFile
  /\ runs = [i \in Requests |-> NewRun]
  /\ resets = [j \in Resets |-> NewReset]
  /\ accepted = 0
  /\ attempted = {}
  /\ retrier = IdleRetry
  /\ upserter = IdleUpsert
  /\ loader = IdleLoader

SpecRecords == InitRecords /\ [][NextPipeline]_vars

\* ------------------------------------------------- crash and restart
\* fs.writeFile under way, the bytes written straight to STATE_FILE.
WriteFilePartialInPlace(i) ==
  /\ runs[i].pc = "writeFile"
  /\ stateFile' = Torn
  /\ UNCHANGED <<envVars, clientVars, clock, engineVars, tmpFile, dest, runs, resets, accepted,
                 attempted>>

\* fs.writeFile(tmpFile, ...) under way: the file is there, its content is
\* not complete.
WriteFilePartial(i) ==
  /\ runs[i].pc = "writeFile"
  /\ tmpFile' = Torn
  /\ UNCHANGED <<envVars, clientVars, clock, engineVars, stateFile, dest, runs, resets, accepted,
                 attempted>>

\* The process dies during a run and is started again: the engine is the one
\* its constructor makes, the files and the calls table are as they were.
Crash(i) ==
  /\ InFlight(i)
  /\ runs' = [runs EXCEPT ![i] = Settled(i, "crashed", NoRet)]
  /\ isSyncing' = FALSE
  /\ lastSyncResult' = NoResult
  /\ syncHistory' = <<>>
  /\ UNCHANGED <<envVars, clientVars, clock, events, storeVars, dest, resets, accepted, attempted>>

\* Real-time runs one after the other, over no watermark or an earlier one.
InitCrash ==
  /\ config = RealTime
  /\ provider = "faithful"
  /\ stateFile \in {NoFile} \cup {StateRecord(w) : w \in Watermarks}
  /\ feed = FeedOf(MaxFeed + 1)
  /\ customers = CustomersTable
  /\ io = "ok"
  /\ clock = BaseMs
  /\ isSyncing = FALSE
  /\ lastSyncResult = NoResult
  /\ syncHistory = <<>>
  /\ events = <<>>
  /\ tmpFile = NoFile
  /\ dest = [id \in CallIds |-> NoRecord]
  /\ runs = [i \in Requests |-> NewRun]
  /\ resets = [j \in Resets |-> NewReset]
  /\ accepted = 0
  /\ attempted = {}
  /\ retrier = IdleRetry
  /\ upserter = IdleUpsert
  /\ loader = IdleLoader

NextCrash ==
  \E i \in Requests :
    \/ RunAccepted(i)
    \/ Connect(i)
    \/ ResolveAndFetch(i)
    \/ FetchFails(i)
    \/ FetchPage(i)
    \/ UpsertCalls(i)
    \/ WriteFilePartial(i)
    \/ WriteFile(i)
    \/ Rename(i)
    \/ Crash(i)

SpecCrash == InitCrash /\ [][NextCrash]_vars

\* The same runs in turn, the first of them started half a second earlier, so
\* that the start instants of two runs fall into different seconds; a
\* watermark there is at the start was written by a run before that instant.
InitWatermark ==
  /\ config = RealTime
  /\ provider = "faithful"
  /\ stateFile \in {NoFile} \cup
       {StateRecord(w) : w \in {v \in Watermarks : v * MsPerSec <= BaseMs - TickMs}}
  /\ feed = FeedOf(MaxFeed + 1)
  /\ customers = CustomersTable
  /\ io = "ok"
  /\ clock = BaseMs - TickMs
  /\ isSyncing = FALSE
  /\ lastSyncResult = NoResult
  /\ syncHistory = <<>>
  /\ events = <<>>
  /\ tmpFile = NoFile
  /\ dest = [id \in CallIds |-> NoRecord]
  /\ runs = [i \in Requests |-> NewRun]
  /\ resets = [j \in Resets |-> NewReset]
  /\ accepted = 0
  /\ attempted = {}
  /\ retrier = IdleRetry
  /\ upserter = IdleUpsert
  /\ loader = IdleLoader

SpecWatermark == InitWatermark /\ [][NextCrash]_vars

\* ------------------------------------------------------------- retry
Defaults ==
  [retries |-> DefaultRetries, minTimeout |-> DefaultMinTimeout,
   maxTimeout |-> DefaultMaxTimeout, factor |-> DefaultFactor]

\* { ...defaults, ...options } for the options a caller may pass: a number of
\* retries, and a cap low enough to be reached.
RetryOptions ==
  {[Defaults EXCEPT !.retries = n, !.maxTimeout = m] :
     n \in 1..MaxRetries, m \in {DefaultMaxTimeout, 3 * DefaultMinTimeout}}

RECURSIVE Pow(_, _)
Pow(b, e) == IF e = 0 THEN 1 ELSE b * Pow(b, e - 1)

\* Math.random() in thousandths: 0, mid-range and the largest below 1.
Randoms == {0, 500, 999}

\* The backoff without its cap.
BaseDelayUncapped(options, attempt) ==
  options.minTimeout * Pow(options.factor, attempt - 1)

\* Math.min(minTimeout * Math.pow(factor, attempt - 1), maxTimeout)
BaseDelay(options, attempt) ==
  Min(options.minTimeout * Pow(options.factor, attempt - 1), options.maxTimeout)

\* Math.floor(baseDelay + Math.random() * baseDelay * 0.1)
Delay(options, attempt, random) ==
  (BaseDelay(options, attempt) * (10000 + random)) \div 10000

\* What invocation k of fn rejects with, and what it resolves to.
ErrorOf(k) == [message |-> "request failed", invocation |-> k]
ValueOf(k) == [data |-> "ok", invocation |-> k]

\* retry(fn, operation, options) up to its first await: fn() is invoked.
Retrying(options) ==
  [pc |-> "attempt", options |-> options, attempt |-> 1, invocations |-> 1,
   delays |-> <<>>, lastError |-> NoError, ret |-> NoRet]

\* The last attempt taken to be the one after the configured count.
LastAttemptLate(r) == r.attempt = r.options.retries + 1

\* if (attempt === config.retries)
LastAttempt(r) == r.attempt = r.options.retries

\* The batch request fn() has issued for upsertCalls, if that is the caller.
Requested(u) ==
  IF u.pc = "patch" THEN [u EXCEPT !.requests = Append(@, u.index)] ELSE u

\* A value fn() resolved to is dropped while attempts are left: the timer is
\* set and fn() invoked again.
RetryAttemptGoesOn ==
  /\ retrier.pc = "attempt"
  /\ \E ok \in BOOLEAN :
       IF LastAttempt(retrier)
       THEN IF ok
            THEN retrier' = [retrier EXCEPT
                               !.pc = "returned",
                               !.ret = [value |-> ValueOf(retrier.invocations)]]
            ELSE retrier' = [retrier EXCEPT
                               !.pc = "thrown",
                               !.lastError = ErrorOf(retrier.invocations),
                               !.ret = [thrown |-> ErrorOf(retrier.invocations)]]
       ELSE \E random \in Randoms :
              retrier' = [retrier EXCEPT
                            !.pc = "sleep",
                            !.lastError = IF ok THEN @ ELSE ErrorOf(retrier.invocations),
                            !.delays = Append(@, Delay(retrier.options,
                                                       retrier.attempt, random))]
  /\ UNCHANGED <<envVars, clock, engineVars, storeVars, dest, runs, resets, accepted,
                 attempted, upserter, loader>>

\* await fn() settles: the value is returned; or the error is caught, thrown
\* again on the last attempt, and otherwise the delay is computed and the
\* timer set.
RetryAttempt ==
  /\ retrier.pc = "attempt"
  /\ \E ok \in BOOLEAN :
       IF ok
       THEN retrier' = [retrier EXCEPT !.pc = "returned",
                                       !.ret = [value |-> ValueOf(retrier.invocations)]]
       ELSE IF LastAttempt(retrier)
            THEN retrier' = [retrier EXCEPT
                               !.pc = "thrown",
                               !.lastError = ErrorOf(retrier.invocations),
                               !.ret = [thrown |-> ErrorOf(retrier.invocations)]]
            ELSE \E random \in Randoms :
                   retrier' = [retrier EXCEPT
                                 !.pc = "sleep",
                                 !.lastError = ErrorOf(retrier.invocations),
                                 !.delays = Append(@, Delay(retrier.options,
                                                            retrier.attempt, random))]
  /\ UNCHANGED <<envVars, clock, engineVars, storeVars, dest, runs, resets, accepted,
                 attempted, upserter, loader>>

\* The timer fires: attempt++, and fn() is invoked again.
RetrySleep ==
  /\ retrier.pc = "sleep"
  /\ retrier' = [retrier EXCEPT !.pc = "attempt", !.attempt = @ + 1,
                                 !.invocations = @ + 1]
  /\ upserter' = Requested(upserter)
  /\ UNCHANGED <<envVars, clock, engineVars, storeVars, dest, runs, resets, accepted,
                 attempted, loader>>

\* The state after construction with one call of retry() made.
InitRetry ==
  /\ InitAfter(0)
  /\ io = "ok"
  /\ config.valid
  /\ retrier \in {Retrying(options) : options \in RetryOptions}
  /\ upserter = IdleUpsert

NextRetry == RetryAttempt \/ RetrySleep

SpecRetry == InitRetry /\ [][NextRetry]_vars

\* ------------------------------------------- upsertCalls, chunk by chunk
\* The chunks without the last one when it is not full.
ChunksOfFull(calls) ==
  [k \in 1..(Len(calls) \div ChunkSize) |->
     SubSeq(calls, (k - 1) * ChunkSize + 1, k * ChunkSize)]

\* for (i = 0; i < calls.length; i += 10) chunks.push(calls.slice(i, i + 10))
ChunksOf(calls) ==
  [k \in 1..ChunkCount(Len(calls)) |->
     SubSeq(calls, (k - 1) * ChunkSize + 1, Min(k * ChunkSize, Len(calls)))]

\* The records of a page, told apart by their 'Call ID'.
Records(n) == [k \in 1..n |-> k]

\* upsertCalls(calls) up to its first await: the chunks are built and the
\* request of the first is issued through retry(); without chunks it returns.
Upserting(calls) ==
  IF ChunksOf(calls) = <<>>
  THEN [pc |-> "returned", calls |-> calls, chunks |-> <<>>, index |-> 0,
        requests |-> <<>>, paces |-> <<>>, ret |-> [value |-> "undefined"]]
  ELSE [pc |-> "patch", calls |-> calls, chunks |-> ChunksOf(calls), index |-> 1,
        requests |-> <<1>>, paces |-> <<>>, ret |-> NoRet]

\* await retry(...) returns: the pacing timer is set.
UpsertPatched ==
  /\ upserter.pc = "patch"
  /\ retrier.pc = "returned"
  /\ upserter' = [upserter EXCEPT !.pc = "pace"]
  /\ retrier' = IdleRetry
  /\ UNCHANGED <<envVars, clock, engineVars, storeVars, dest, runs, resets, accepted,
                 attempted, loader>>

\* await retry(...) throws: upsertCalls throws the same.
UpsertPatchFailed ==
  /\ upserter.pc = "patch"
  /\ retrier.pc = "thrown"
  /\ upserter' = [upserter EXCEPT !.pc = "thrown", !.ret = retrier.ret]
  /\ retrier' = IdleRetry
  /\ UNCHANGED <<envVars, clock, engineVars, storeVars, dest, runs, resets, accepted,
                 attempted, loader>>

\* The pacing timer fires: the next chunk's request is issued through
\* retry(), or upsertCalls returns.
UpsertPace ==
  /\ upserter.pc = "pace"
  /\ IF upserter.index < Len(upserter.chunks)
     THEN /\ upserter' = [upserter EXCEPT !.pc = "patch", !.index = @ + 1,
                                          !.paces = Append(@, PaceMs),
                                          !.requests = Append(@, upserter.index + 1)]
          /\ retrier' = Retrying(Defaults)
     ELSE /\ upserter' = [upserter EXCEPT !.pc = "returned",
                                          !.paces = Append(@, PaceMs),
                                          !.ret = [value |-> "undefined"]]
          /\ UNCHANGED retrier
  /\ UNCHANGED <<envVars, clock, engineVars, storeVars, dest, runs, resets, accepted,
                 attempted, loader>>

\* The state after construction with one call of upsertCalls made.
InitUpsert ==
  /\ InitAfter(0)
  /\ io = "ok"
  /\ config.valid
  /\ \E n \in 0..MaxBatch :
       /\ upserter = Upserting(Records(n))
       /\ retrier = IF n = 0 THEN IdleRetry ELSE Retrying(Defaults)

NextUpsert ==
  \/ RetryAttempt
  \/ RetrySleep
  \/ UpsertPatched
  \/ UpsertPatchFailed
  \/ UpsertPace

SpecUpsert == InitUpsert /\ [][NextUpsert]_vars

\* ------------------------------- a page of more than one chunk in a run
\* A feed whose calls all started within the first seconds of the day.
DenseFeed(n) ==
  [k \in 1..n |-> [id |-> k,
                   date_started |-> MsPerDay + (k - 1),
                   external_number |-> PhoneOfCall(k)]]

\* await airtable.upsertCalls(callsToUpsert), up to its first await: the
\* chunks are built and the first request is issued through retry().
UpsertCallsStart(i) ==
  /\ runs[i].pc = "upsertCalls"
  /\ upserter' = Upserting(runs[i].callsToUpsert)
  /\ retrier' = Retrying(Defaults)
  /\ attempted' = attempted \cup
       {runs[i].callsToUpsert[k].callId : k \in 1..Len(runs[i].callsToUpsert)}
  /\ runs' = [runs EXCEPT ![i].pc = "upserting"]
  /\ UNCHANGED <<envVars, clock, engineVars, storeVars, dest, resets, accepted, loader>>

\* await retry(...) returns in upsertCalls: the chunk is in the table, the
\* pacing timer is set.
UpsertCallsPatched(i) ==
  /\ runs[i].pc = "upserting"
  /\ upserter.pc = "patch"
  /\ retrier.pc = "returned"
  /\ dest' = UpsertAll(dest, upserter.chunks[upserter.index])
  /\ upserter' = [upserter EXCEPT !.pc = "pace"]
  /\ retrier' = IdleRetry
  /\ UNCHANGED <<envVars, clock, engineVars, storeVars, runs, resets, accepted,
                 attempted, loader>>

\* The failure of a chunk rethrown by sync(): the run fails.
UpsertCallsRethrown(i) ==
  /\ runs[i].pc = "upserting"
  /\ upserter.pc = "patch"
  /\ retrier.pc = "thrown"
  /\ upserter' = [upserter EXCEPT !.pc = "thrown", !.ret = retrier.ret]
  /\ retrier' = IdleRetry
  /\ Fail(i, "Airtable upsertCalls failed")
  /\ UNCHANGED <<envVars, clock, storeVars, dest, resets, accepted, attempted, loader>>

\* await retry(...) throws in upsertCalls, which throws the same; the catch
\* in sync() logs it and the loop goes on to the state write.
UpsertCallsCaught(i) ==
  /\ runs[i].pc = "upserting"
  /\ upserter.pc = "patch"
  /\ retrier.pc = "thrown"
  /\ upserter' = [upserter EXCEPT !.pc = "thrown", !.ret = retrier.ret]
  /\ retrier' = IdleRetry
  /\ runs' = [runs EXCEPT ![i].pc = "writeFile", ![i].upserts = @ + 1]
  /\ UNCHANGED <<envVars, clock, engineVars, storeVars, dest, resets, accepted,
                 attempted, loader>>

\* upsertCalls returns after its last pacing timer: the state write is next.
UpsertCallsDone(i) ==
  /\ runs[i].pc = "upserting"
  /\ upserter.pc = "returned"
  /\ runs' = [runs EXCEPT ![i].pc = "writeFile", ![i].upserts = @ + 1]
  /\ UNCHANGED <<envVars, clientVars, clock, engineVars, storeVars, dest, resets,
                 accepted, attempted>>

\* One real-time run over a feed whose first page holds one chunk and one
\* record more.
InitChunks ==
  /\ config = [RealTime EXCEPT !.pageSize = Min(ChunkSize + 1, PageSizeCap)]
  /\ provider = "faithful"
  /\ feed = DenseFeed(ChunkSize + MaxFeed)
  /\ customers = CustomersTable
  /\ stateFile = NoFile
  /\ io = "ok"
  /\ clock = BaseMs
  /\ isSyncing = FALSE
  /\ lastSyncResult = NoResult
  /\ syncHistory = <<>>
  /\ events = <<>>
  /\ tmpFile = NoFile
  /\ dest = [id \in 1..(ChunkSize + MaxFeed) |-> NoRecord]
  /\ runs = [i \in Requests |-> NewRun]
  /\ resets = [j \in Resets |-> NewReset]
  /\ accepted = 0
  /\ attempted = {}
  /\ retrier = IdleRetry
  /\ upserter = IdleUpsert
  /\ loader = IdleLoader

NextChunks ==
  \/ RunAccepted(1)
  \/ Connect(1)
  \/ ResolveAndFetch(1)
  \/ FetchFails(1)
  \/ FetchPage(1)
  \/ UpsertCallsStart(1)
  \/ RetryAttempt
  \/ RetrySleep
  \/ UpsertCallsPatched(1)
  \/ UpsertCallsCaught(1)
  \/ UpsertPace
  \/ UpsertCallsDone(1)
  \/ WriteFile(1)
  \/ Rename(1)

SpecChunks == InitChunks /\ [][NextChunks]_vars

\* --------------------------------------- getCustomers, page by page
\* Customers that match no call: one without a phone, the next with a phone
\* that does not parse.
Fillers(n) ==
  [k \in 1..n |-> [id |-> "rec" \o ToString(k),
                   phone |-> IF k % 2 = 0 THEN NoPhone ELSE "abc"]]

\* Customers tables of no page, one page, one full page, and of two and
\* three pages with the two customers of one phone on different pages.
DirectoryTables ==
  { <<>>,
    CustomersTable,
    Fillers(DirectoryPageSize),
    <<CustomersTable[2]>> \o Fillers(DirectoryPageSize - 1) \o <<CustomersTable[1]>>,
    <<CustomersTable[1]>> \o Fillers(2 * DirectoryPageSize - 1)
      \o <<CustomersTable[2]>> }

\* response.data of GET /customersTable: up to pageSize records from the
\* offset on, and an offset when records remain.
DirectoryPage(table, offset) ==
  LET from == IF offset = NoOffset THEN 1 ELSE offset
      to == Min(from + DirectoryPageSize - 1, Len(table))
  IN [records |-> SubSeq(table, from, to),
      offset |-> IF to < Len(table) THEN to + 1 ELSE NoOffset]

\* The loop left after the first page whatever the response says.
MoreCustomersNever(page) == FALSE

\* while (offset)
MoreCustomers(page) == page.offset # NoOffset

\* await dialpad.testConnection(), await airtable.testConnection(); then
\* getCustomers() up to its first await: the first page is requested.
TestConnections(i) ==
  /\ runs[i].pc = "connect"
  /\ \E outcome \in {"ok", "Dialpad API connection failed", "Airtable connection failed"} :
       IF outcome = "ok"
       THEN /\ runs' = [runs EXCEPT ![i].pc = "getCustomers"]
            /\ loader' = [pc |-> "fetching", offset |-> NoOffset, customers |-> <<>>,
                          fetches |-> loader.fetches + 1]
            /\ UNCHANGED engineVars
       ELSE Fail(i, outcome) /\ UNCHANGED loader
  /\ UNCHANGED <<envVars, retrier, upserter, clock, storeVars, dest, resets, accepted,
                 attempted>>

\* await retry(axios.get(customers, {offset})) settles: the records are
\* pushed; with an offset the next page is requested; without, getCustomers
\* returns, the phone map is built and now = Date.now() is taken.
GetCustomersPage(i) ==
  /\ runs[i].pc = "getCustomers"
  /\ \E ok \in BOOLEAN :
       IF ok
       THEN LET page == DirectoryPage(customers, loader.offset)
                loaded == loader.customers \o page.records
            IN IF MoreCustomers(page)
               THEN /\ loader' = [loader EXCEPT !.offset = page.offset,
                                                !.customers = loaded,
                                                !.fetches = @ + 1]
                    /\ UNCHANGED <<runs, clock, engineVars>>
               ELSE /\ loader' = [loader EXCEPT !.pc = "done", !.offset = NoOffset,
                                                !.customers = loaded]
                    /\ \E t \in ClockReadings :
                         /\ clock' = t
                         /\ runs' = [runs EXCEPT
                              ![i].pc = "getLastSynced",
                              ![i].phoneMap = BuildCustomerPhoneMap(loaded, EmptyPhoneMap),
                              ![i].now = t]
                    /\ UNCHANGED engineVars
       ELSE /\ Fail(i, "Airtable getCustomers failed")
            /\ UNCHANGED <<loader, clock>>
  /\ UNCHANGED <<envVars, retrier, upserter, storeVars, dest, resets, accepted, attempted>>

\* One real-time run over each customers table.
InitDirectory ==
  /\ config = RealTime
  /\ provider = "faithful"
  /\ stateFile = NoFile
  /\ feed = FeedOf(MaxFeed + 1)
  /\ customers \in DirectoryTables
  /\ io = "ok"
  /\ clock = BaseMs
  /\ isSyncing = FALSE
  /\ lastSyncResult = NoResult
  /\ syncHistory = <<>>
  /\ events = <<>>
  /\ tmpFile = NoFile
  /\ dest = [id \in CallIds |-> NoRecord]
  /\ runs = [i \in Requests |-> NewRun]
  /\ resets = [j \in Resets |-> NewReset]
  /\ accepted = 0
  /\ attempted = {}
  /\ retrier = IdleRetry
  /\ upserter = IdleUpsert
  /\ loader = IdleLoader

NextDirectory ==
  \/ RunAccepted(1)
  \/ TestConnections(1)
  \/ GetCustomersPage(1)
  \/ ResolveAndFetch(1)
  \/ FetchFails(1)
  \/ FetchPage(1)
  \/ UpsertCalls(1)
  \/ WriteFile(1)
  \/ Rename(1)

SpecDirectory == InitDirectory /\ [][NextDirectory]_vars

\* ============================================================ claims
\* The window the next real-time run would resolve from the watermark on disk.
NextWindow ==
  ResolveWindow(config, clock, clock, GetLastSynced(stateFile) * MsPerSec)

WritingState == {i \in Requests : runs[i].pc \in {"writeFile", "rename"}}

\* C1: at most one run is Running at any time, whatever the interleaving of
\* run() requests, so at most one pipeline is inside state.setLastSynced; and
\* the flag isSyncing is set exactly while a run is Running.
C1_SingleRun ==
  /\ Cardinality(Running) <= 1
  /\ Cardinality(WritingState) <= 1
  /\ isSyncing <=> Running # {}

\* C1 witness: a second request arrived, and was turned away, while the first
\* run is inside setLastSynced.
C1_Witness ==
  \E i, k \in Requests :
    /\ runs[i].pc = "rename"
    /\ runs[k].pc = "rejected"

\* C2: a run() request made while a run is Running returns the result
\* {error: 'Sync already in progress'} at once, is never started later, and
\* changes nothing: isSyncing stays true, lastSyncResult, syncHistory, the
\* events, the watermark, the destination and the running pipeline are as before.
C2_RejectedFrame ==
  [][\A i \in Requests :
       /\ (runs[i].pc = "new" /\ isSyncing /\ runs'[i] # runs[i]) =>
            /\ runs'[i].pc = "rejected"
            /\ runs'[i].ret = [error |-> AlreadyMsg]
            /\ isSyncing'
            /\ UNCHANGED <<lastSyncResult, syncHistory, events, stateFile, tmpFile,
                           dest, accepted, attempted>>
            /\ \A k \in Requests \ {i} : runs'[k] = runs[k]
       /\ (runs[i].pc = "rejected") => runs'[i] = runs[i]
    ]_vars

\* C2 witness: a request holds the 'already in progress' result while the run
\* that was Running when it came has gone on to its upsert.
C2_Witness ==
  \E i, k \in Requests :
    /\ runs[i].pc = "rejected"
    /\ runs[i].ret = [error |-> AlreadyMsg]
    /\ runs[k].pc = "upsertCalls"
    /\ isSyncing

\* C3 (as claimed): when a run ends, every call of its window whose write was
\* never attempted lies inside the window of the next real-time run, which
\* starts at the watermark less the grace period: no call is skipped.
C3_NoCallSkipped ==
  [][\A i \in Requests :
       (InFlight(i) /\ ~InFlight(i)') =>
          \A k \in 1..Len(feed) :
             (feed[k].id \in WindowIds(i) /\ feed[k].id \notin attempted')
                => feed[k].date_started >= NextWindow'.start
    ]_vars

\* C4 (as claimed): the history never holds more than HistoryCap entries, and
\* those it holds are in order, a later run before an earlier one.
C4_HistoryBounded ==
  /\ Len(syncHistory) <= HistoryCap
  /\ \A k \in 1..(Len(syncHistory) - 1) : syncHistory[k].run > syncHistory[k + 1].run

\* C5: when the pipeline of an accepted run throws, the engine stores
\* {success: false, error: the error's message} as lastSyncResult, puts it in
\* front of the history, emits sync:failed carrying it, is Idle again, and the
\* caller of run() gets the same error.
C5_FailureRecorded ==
  [][\A i \in Requests :
       (runs[i].pc # "thrown" /\ runs'[i].pc = "thrown") =>
          LET message == runs'[i].ret.thrown
              e == [result |-> [success |-> FALSE, error |-> message],
                    run |-> runs'[i].run]
          IN /\ lastSyncResult' = e
             /\ syncHistory' = <<e>> \o syncHistory
             /\ Len(events') > 0
             /\ events'[Len(events')] =
                   [type |-> "sync:failed", run |-> runs'[i].run, payload |-> e]
             /\ ~isSyncing'
    ]_vars

\* C5 witness: a run whose pipeline threw at its first page; the error is the
\* last result, heads the history and was the last event sent.
C5_Witness ==
  \E i \in Requests :
    /\ runs[i].pc = "thrown"
    /\ runs[i].ret = [thrown |-> "Dialpad getCalls failed"]
    /\ lastSyncResult.run = runs[i].run
    /\ lastSyncResult.result.error = "Dialpad getCalls failed"
    /\ syncHistory[1] = lastSyncResult
    /\ events[Len(events)].type = "sync:failed"
    /\ ~isSyncing

\* C6: resetState() called while a run is Running fails with 'Cannot reset
\* state while sync is in progress' and leaves the watermark file, the history
\* and the last result as they were.
C6_ResetRejected ==
  [][\A j \in Resets :
       (resets[j].pc = "new" /\ isSyncing /\ resets'[j] # resets[j]) =>
          /\ resets'[j].pc = "thrown"
          /\ resets'[j].ret = [thrown |-> ResetBusyMsg]
          /\ UNCHANGED <<stateFile, syncHistory, lastSyncResult>>
    ]_vars

\* C6 witness: a reset was refused while a run that follows an earlier one is
\* Running, so that a watermark and a history were there to lose.
C6_Witness ==
  \E j \in Resets :
    /\ resets[j].ret = [thrown |-> ResetBusyMsg]
    /\ isSyncing
    /\ stateFile.exists
    /\ Len(syncHistory) > 0

\* C7 (as claimed): in no interleaving does a reset remove the watermark file,
\* or empty a history that holds results, while a run is Running.
C7_ResetOnlyWhileIdle ==
  [][\A j \in Resets :
       (/\ ResetInFlight(j)
        /\ resets'[j] # resets[j]
        /\ \/ stateFile.exists /\ ~stateFile'.exists
           \/ syncHistory # <<>> /\ syncHistory' = <<>>)
          => Running = {}
    ]_vars

\* C8: a resetState() that succeeds with the engine Idle from its call to its
\* return leaves no watermark, no last result and an empty history:
\* getLastSynced() is 0, getStatus() shows state null, lastSync null and no
\* history, and the next real-time run starts its window at the start of the
\* day, as a first run does.
C8_ResetClears ==
  [][\A j \in Resets :
       (ResetInFlight(j) /\ resets'[j].pc = "returned" /\ ~resets'[j].raced) =>
          /\ ~stateFile'.exists
          /\ GetLastSynced(stateFile') = 0
          /\ GetStatus'.state = [null |-> TRUE]
          /\ GetStatus'.lastSync = NoResult
          /\ GetStatus'.history = <<>>
          /\ syncHistory' = <<>>
          /\ NextWindow' = [start |-> GetStartOfToday(clock'), end |-> clock']
    ]_vars

\* C8 witness: a reset has returned, Idle throughout, after a run that had
\* written calls and with them the watermark: file and history are gone.
C8_Witness ==
  \E j \in Resets, i \in Requests :
    /\ resets[j].pc = "returned"
    /\ ~resets[j].raced
    /\ runs[i].pc = "returned"
    /\ runs[i].ret.result.totalCalls > 0
    /\ ~stateFile.exists
    /\ syncHistory = <<>>
    /\ lastSyncResult = NoResult

\* The places in the log of the events of a type sent by run n.
EventsOf(n, types) ==
  {k \in 1..Len(events) : events[k].run = n /\ events[k].type \in types}

Terminal == {"sync:completed", "sync:failed"}

\* C9: every accepted run emits sync:started once, on entry to Running, and
\* then one terminal event, sync:completed or sync:failed, no later than its
\* return to Idle; a rejected run emits nothing.
C9_Lifecycle ==
  /\ \A k \in 1..Len(events) : events[k].run \in 1..accepted
  /\ \A i \in Requests :
       LET started == EventsOf(runs[i].run, {"sync:started"})
           ended == EventsOf(runs[i].run, Terminal)
       IN CASE runs[i].pc \in {"new", "rejected"} ->
                 runs[i].run = 0
            [] InFlight(i) ->
                 Cardinality(started) = 1 /\ ended = {}
            [] OTHER ->
                 /\ Cardinality(started) = 1
                 /\ Cardinality(ended) = 1
                 /\ \A a \in started, b \in ended : a < b
                 /\ \A b \in ended :
                      events[b].type = IF runs[i].pc = "thrown" THEN "sync:failed"
                                       ELSE "sync:completed"

\* C9 witness: one run failed and one completed, and the log holds the four
\* events of the two.
C9_Witness ==
  \E i, k \in Requests :
    /\ runs[i].pc = "thrown"
    /\ runs[k].pc = "returned"
    /\ Len(events) = 4

\* C10: if the first page fetch of a run fails, the error reaches the caller
\* of run(), nothing was or is written to the destination by the run, the
\* watermark is not written, and the result the engine records has
\* success = false.
C10_FirstPageFailure ==
  [][\A i \in Requests :
       (FetchFails(i) /\ runs[i].pageCount = 1) =>
          /\ runs'[i].pc = "thrown"
          /\ runs'[i].ret = [thrown |-> "Dialpad getCalls failed"]
          /\ runs[i].upserts = 0
          /\ runs[i].stateWrites = 0
          /\ UNCHANGED <<dest, stateFile, tmpFile>>
          /\ lastSyncResult'.result.success = FALSE
          /\ lastSyncResult'.run = runs[i].run
          /\ ~isSyncing'
    ]_vars

\* C10 witness: a run has failed at its first page and the destination holds
\* no record.
C10_Witness ==
  \E i \in Requests :
    /\ runs[i].ret = [thrown |-> "Dialpad getCalls failed"]
    /\ lastSyncResult.result.success = FALSE
    /\ \A id \in CallIds : dest[id] = NoRecord
    /\ ~stateFile.exists

\* C11: when the fetch of a page after the first fails, the run ends there
\* with no further fetch and returns success = true; totalCalls and
\* matchedCalls are the counts of the pages processed before, one call a page
\* here; the watermark those pages wrote, the run's own start time in
\* seconds, stays on disk, as does what they wrote to the destination.
C11_LaterPageFailure ==
  [][\A i \in Requests :
       (runs[i].pc = "getCalls" /\ runs[i].pageCount > 1 /\ FetchFails(i)) =>
          /\ runs'[i].pc = "returned"
          /\ runs'[i].ret.result.success = TRUE
          /\ runs'[i].ret.result.totalCalls = runs[i].totalCalls
          /\ runs'[i].ret.result.totalCalls = (runs[i].pageCount - 1) * config.pageSize
          /\ runs'[i].ret.result.matchedCalls = runs[i].matchedCalls
          /\ runs'[i].ret.result.unmatchedCalls
                = runs[i].totalCalls - runs[i].matchedCalls
          /\ lastSyncResult' = runs'[i].ret
          /\ ~isSyncing'
          /\ UNCHANGED <<stateFile, tmpFile, dest>>
          /\ stateFile.exists
          /\ stateFile.lastSyncedEpochS = runs[i].now \div MsPerSec
    ]_vars

\* C11 witness: of three calls a page each, the run has returned with the
\* first two counted, the second unmatched, having asked for three pages.
C11_Witness ==
  /\ provider = "faithful"
  /\ config = RealTime
  /\ runs[1].pc = "returned"
  /\ runs[1].ret.result.success
  /\ runs[1].ret.result.totalCalls = 2
  /\ runs[1].ret.result.matchedCalls = 1
  /\ runs[1].ret.result.pagesProcessed = 3
  /\ stateFile.exists

\* C12 (as claimed): pagesProcessed is the number of pages fetched and
\* processed: when the fetch of a later page throws, it is the number of the
\* pages before it, each of which went to the destination.
C12_PagesProcessed ==
  [][\A i \in Requests :
       (runs[i].pc = "getCalls" /\ runs[i].pageCount > 1 /\ FetchFails(i)) =>
          /\ runs'[i].ret.result.success = TRUE
          /\ runs'[i].ret.result.pagesProcessed = runs[i].upserts
          /\ runs'[i].ret.result.pagesProcessed = runs[i].pageCount - 1
    ]_vars

\* The window a run resolves in the step that leaves the watermark read.
Resolved(i) ==
  ResolveWindow(config, runs[i].now, clock', GetLastSynced(stateFile) * MsPerSec)

\* C13: when the window a run resolves has start >= end the run is a no-op
\* and no error: it returns success = true with totalCalls, matchedCalls,
\* unmatchedCalls and pagesProcessed all 0, has asked for no page and asks for
\* none, and leaves the destination and the watermark as they were; a run
\* that does ask for a page has start < end.
C13_EmptyWindowNoOp ==
  [][\A i \in Requests :
       (runs[i].pc = "getLastSynced" /\ runs'[i].pc # "getLastSynced") =>
          IF Resolved(i).start >= Resolved(i).end
          THEN /\ runs'[i].pc = "returned"
               /\ runs'[i].ret.result.success = TRUE
               /\ runs'[i].ret.result.totalCalls = 0
               /\ runs'[i].ret.result.matchedCalls = 0
               /\ runs'[i].ret.result.unmatchedCalls = 0
               /\ runs'[i].ret.result.pagesProcessed = 0
               /\ runs[i].fetches = 0
               /\ events'[Len(events')].type = "sync:completed"
               /\ UNCHANGED <<dest, stateFile, tmpFile, attempted>>
          ELSE /\ runs'[i].pc = "getCalls"
               /\ runs'[i].startedAfter < runs'[i].startedBefore
    ]_vars

\* C13 witness: with a time range that has not begun the run has returned the
\* no-op result, the watermark an earlier process left still on disk.
C13_Witness ==
  /\ config.timeRange = [start |-> HHMM(21, 0), end |-> HHMM(22, 0)]
  /\ runs[1].pc = "returned"
  /\ runs[1].ret.result = NoWindowResult
  /\ stateFile = StateRecord(1)
  /\ \A id \in CallIds : dest[id] = NoRecord

\* Real-time mode is in force: no time range, and REALTIME_ONLY or DAYS_BACK=0.
Continuous(cfg) ==
  ~HasTimeRangeConfig(cfg) /\ (cfg.realtimeOnly \/ cfg.daysBack = 0)

\* startedAfter and startedBefore of a run are start and end, or the run is
\* the no-op when start >= end.
Queries(i, start, end) ==
  IF start < end
  THEN /\ runs'[i].pc = "getCalls"
       /\ runs'[i].startedAfter = start
       /\ runs'[i].startedBefore = end
  ELSE runs'[i].pc = "returned" /\ runs'[i].ret.result = NoWindowResult

\* C14: in real-time mode the window of a run ends at the run's now and
\* starts at the watermark less the backfill grace when a watermark is on
\* disk, and at the start of the current day when none is.
C14_ContinuousWindow ==
  [][\A i \in Requests :
       (/\ runs[i].pc = "getLastSynced" /\ runs'[i].pc # "getLastSynced"
        /\ Continuous(config)) =>
          Queries(i,
                  IF stateFile.exists
                  THEN (stateFile.lastSyncedEpochS - config.backfillGraceSeconds)
                         * MsPerSec
                  ELSE clock' - (clock' % MsPerDay),
                  runs[i].now)
    ]_vars

\* C14 witness: watermark T0 at the first instant, grace 300 s, the run begun
\* half a second later: it queries [T0 - 300 s, now).
C14_Witness ==
  /\ Continuous(config)
  /\ config.backfillGraceSeconds = 300
  /\ runs[1].pc = "getCalls"
  /\ runs[1].now = BaseMs + TickMs
  /\ runs[1].startedAfter = BaseMs - 300 * MsPerSec
  /\ runs[1].startedBefore = BaseMs + TickMs

\* C15 (as claimed): of the modes configured at once one is selected, the
\* time range before the look-back and the look-back before real-time: with a
\* time range set the window is the one of the range; without one and with
\* DAYS_BACK = N > 0 the window is the look-back's, which with no watermark on
\* disk is [now - N days, now), whether or not REALTIME_ONLY is set too.
C15_ModePriority ==
  [][\A i \in Requests :
       (runs[i].pc = "getLastSynced" /\ runs'[i].pc # "getLastSynced") =>
          /\ HasTimeRangeConfig(config) =>
                Queries(i, GetTimeRangeWindow(config, clock').start,
                           GetTimeRangeWindow(config, clock').end)
          /\ (~HasTimeRangeConfig(config) /\ config.daysBack > 0
                 /\ ~stateFile.exists) =>
                Queries(i, runs[i].now - config.daysBack * MsPerDay, runs[i].now)
    ]_vars

\* C16 (as claimed): in look-back mode (DAYS_BACK = N > 0, REALTIME_ONLY and
\* the time range unset) the window is [now - N days, now), whatever
\* watermark is on disk.
C16_LookBackWindow ==
  [][\A i \in Requests :
       (/\ runs[i].pc = "getLastSynced" /\ runs'[i].pc # "getLastSynced"
        /\ ~HasTimeRangeConfig(config)
        /\ ~config.realtimeOnly /\ config.daysBack > 0) =>
          Queries(i, runs[i].now - config.daysBack * MsPerDay, runs[i].now)
    ]_vars

\* The instant at which the wall clock of the configured zone shows hm on the
\* zone's current day, the zone being cfg.tzOffsetHours behind UTC.
InstantOf(cfg, t, hm) ==
  LET local == t - cfg.tzOffsetHours * MsPerHour
  IN (local - (local % MsPerDay)) + hm.hour * MsPerHour + hm.minute * MsPerMinute
       + cfg.tzOffsetHours * MsPerHour

\* C17: with a time range configured the window starts at the instant of the
\* range's start, as it is, and ends at the earlier of the instant of the
\* range's end and the present; a range that has not begun gives start >= end
\* and the run is the no-op with success = true.
C17_TimeRangeClamp ==
  [][\A i \in Requests :
       (/\ runs[i].pc = "getLastSynced" /\ runs'[i].pc # "getLastSynced"
        /\ HasTimeRangeConfig(config)) =>
          LET start == InstantOf(config, clock', config.timeRange.start)
              end == InstantOf(config, clock', config.timeRange.end)
          IN /\ Queries(i, start, Min(end, clock'))
             /\ start >= clock' =>
                   /\ runs'[i].pc = "returned"
                   /\ runs'[i].ret.result.success = TRUE
                   /\ runs'[i].ret.result.totalCalls = 0
    ]_vars

\* C17 witness: the range 18:00-20:00 holds the present; the run, begun half
\* a second before the range was resolved, queries from 18:00 New York time
\* (23:00 UTC of the day before) to the present.
C17_Witness ==
  /\ config.timeRange = [start |-> HHMM(18, 0), end |-> HHMM(20, 0)]
  /\ runs[1].pc = "getCalls"
  /\ runs[1].now = BaseMs
  /\ runs[1].startedAfter = 23 * MsPerHour
  /\ runs[1].startedBefore = BaseMs + TickMs
  /\ clock = BaseMs + TickMs

\* The cursor that came with the page asked for with cursor c.
CursorAfter(startedAfter, startedBefore, c) ==
  GetCalls(startedAfter, startedBefore, c, config.pageSize).cursor

\* C18: a run follows the chain of cursors and stops at the first page that
\* comes without one: its first request passes no cursor, every later one
\* the cursor that came with the page before, and after a page without a
\* cursor no request follows; so when the provider pages faithfully and the
\* window holds n calls, a page each, a run whose fetches all succeed has
\* made exactly n requests, passing null, c1, ..., in this order.
C18_CursorChain ==
  [][\A i \in Requests :
       /\ runs'[i].pc \in {"getCalls", "upsertCalls", "writeFile", "rename"} =>
            /\ Len(runs'[i].passed) = runs'[i].fetches
            /\ runs'[i].passed[1] = NoCursor
            /\ \A k \in 2..Len(runs'[i].passed) :
                 /\ runs'[i].passed[k] # NoCursor
                 /\ runs'[i].passed[k] =
                      CursorAfter(runs'[i].startedAfter, runs'[i].startedBefore,
                                  runs'[i].passed[k - 1])
            /\ runs'[i].cursor = runs'[i].passed[Len(runs'[i].passed)]
       /\ (runs[i].pc = "rename" /\ runs[i].nextCursor = NoCursor) =>
            runs'[i].pc \in {"returned", "thrown"}
       /\ (runs[i].pc = "rename" /\ runs'[i].pc = "returned"
             /\ provider = "faithful") =>
            LET n == Len(WindowCalls(runs[i].startedAfter, runs[i].startedBefore))
            IN /\ runs[i].fetches = n
               /\ runs[i].passed = [k \in 1..n |-> IF k = 1 THEN NoCursor ELSE k]
               /\ runs'[i].ret.result.pagesProcessed = n
    ]_vars

\* C18 witness: three calls, a page each, cursors c1, c2 and none: the run has
\* returned after three pages with the three calls counted.
C18_Witness ==
  /\ provider = "faithful"
  /\ config = RealTime
  /\ Len(feed) = 3
  /\ runs[1].pc = "returned"
  /\ runs[1].ret.result.totalCalls = 3
  /\ runs[1].ret.result.pagesProcessed = 3

\* The page a run's pending request gets when the fetch succeeds.
PendingPage(i) ==
  GetCalls(runs[i].startedAfter, runs[i].startedBefore, runs[i].cursor,
           config.pageSize)

\* C19 (as claimed): while fetches succeed a run leaves the loop only when a
\* page comes without a cursor or the page bound is reached: a page that
\* carries a cursor, below the bound, never ends the run, however many items
\* it holds.
C19_StopsOnlyWithoutCursor ==
  [][\A i \in Requests :
       (/\ runs[i].pc = "getCalls" /\ FetchPage(i)
        /\ PendingPage(i).cursor # NoCursor
        /\ runs[i].pageCount < MaxPages) =>
          runs'[i].pc \notin {"returned", "thrown"}
    ]_vars

\* C20: a run never makes more than MaxPages page requests, even when every
\* page carries a cursor; the run that reaches the bound, its state write
\* done, ends there with success = true and sync:completed, MaxPages pages
\* counted, and not with an error.
C20_PageBound ==
  [][\A i \in Requests :
       /\ runs'[i].fetches <= MaxPages
       /\ runs'[i].pageCount <= MaxPages
       /\ (/\ runs[i].pc = "rename" /\ runs[i].pageCount >= MaxPages
           /\ runs[i].nextCursor # NoCursor
           /\ tmpFile.exists /\ ~tmpFile'.exists) =>
             /\ runs'[i].pc = "returned"
             /\ runs'[i].ret.result.success = TRUE
             /\ runs'[i].ret.result.pagesProcessed = MaxPages
             /\ events'[Len(events')].type = "sync:completed"
             /\ ~isSyncing'
    ]_vars

\* C20 witness: the provider sends a cursor with every page; the run has
\* returned success after MaxPages pages of one call.
C20_Witness ==
  /\ provider = "endless"
  /\ runs[1].pc = "returned"
  /\ runs[1].ret.result.success
  /\ runs[1].ret.result.pagesProcessed = MaxPages
  /\ runs[1].ret.result.totalCalls = MaxPages * config.pageSize

\* The ids of the records of the page a run is at.
PageIds(i) ==
  {runs[i].callsToUpsert[k].callId : k \in 1..Len(runs[i].callsToUpsert)}

\* C21: within a run the watermark is written only after the writes of the
\* page were attempted: whenever a run is inside setLastSynced it has
\* attempted the upsert of every page so far, that of the page at hand
\* included, and has finished one setLastSynced fewer; before the upsert
\* attempt of its first page it has made none; and the state files change in
\* no step but those of a run inside setLastSynced.
C21_WatermarkAfterUpsert ==
  [][\A i \in Requests :
       /\ runs[i].pc \in {"writeFile", "rename"} =>
            /\ runs[i].upserts = runs[i].pageCount
            /\ runs[i].upserts >= 1
            /\ runs[i].stateWrites = runs[i].pageCount - 1
            /\ PageIds(i) \subseteq attempted
       /\ runs[i].pc \in {"getCalls", "upsertCalls"} =>
            /\ runs[i].upserts = runs[i].pageCount - 1
            /\ runs[i].stateWrites = runs[i].upserts
       /\ runs[i].pc \in {"new", "connect", "getLastSynced"} =>
            runs[i].upserts = 0 /\ runs[i].stateWrites = 0
       /\ (tmpFile' # tmpFile \/ stateFile' # stateFile) =>
            \E k \in Requests : runs[k].pc \in {"writeFile", "rename"}
    ]_vars

\* C21 witness: a run is inside the setLastSynced of its second page, the
\* upserts of both pages attempted and the first watermark write done.
C21_Witness ==
  /\ runs[1].pc = "rename"
  /\ runs[1].pageCount = 2
  /\ runs[1].upserts = 2
  /\ runs[1].stateWrites = 1
  /\ stateFile.exists /\ tmpFile.exists

\* The errors that end a run: those of the configuration, the connection
\* tests, the directory load, the first page's fetch and the state write.
RunErrors ==
  {"Missing required environment variables", "Dialpad getCalls failed",
   "Failed to save state"} \cup ConnectErrors

\* C22: a batch write that fails after its retries does not abort the run:
\* whatever the upsert of a page delivered, all its chunks or fewer, the run
\* goes on to the state write with its cursor and counters as they were and
\* nothing recorded by the engine; after the state write it requests the next
\* page when the page carried a cursor; and no run ever fails with an error
\* of the upsert.
C22_BatchFailureTolerated ==
  [][\A i \in Requests :
       /\ (runs[i].pc = "upsertCalls" /\ runs'[i] # runs[i]) =>
            /\ runs'[i] = [runs[i] EXCEPT !.pc = "writeFile", !.upserts = @ + 1]
            /\ UNCHANGED <<isSyncing, lastSyncResult, syncHistory, events>>
       /\ (/\ runs[i].pc = "rename" /\ tmpFile.exists /\ ~tmpFile'.exists
           /\ runs[i].nextCursor # NoCursor /\ runs[i].pageCount < MaxPages) =>
            /\ runs'[i].pc = "getCalls"
            /\ runs'[i].cursor = runs[i].nextCursor
       /\ runs'[i].pc = "thrown" => runs'[i].ret.thrown \in RunErrors
    ]_vars

\* C22 witness: the batch of each of three pages failed, nothing reached the
\* destination, and the run has returned success with the three calls counted.
C22_Witness ==
  /\ provider = "faithful"
  /\ runs[1].pc = "returned"
  /\ runs[1].ret.result.success
  /\ runs[1].ret.result.totalCalls = 3
  /\ runs[1].ret.result.pagesProcessed = 3
  /\ attempted = {1, 2, 3}
  /\ \A id \in CallIds : dest[id] = NoRecord

\* The call of the feed that a record was built from.
CallOf(id) == CHOOSE c \in {feed[k] : k \in 1..Len(feed)} : c.id = id

\* C25 (as claimed): the record of a call that has no external phone carries
\* neither the customer link nor the unmatched phone field, in the batch
\* handed to the upsert and at the destination.
C25_NoPhoneNeitherField ==
  /\ \A i \in Requests : \A k \in 1..Len(runs[i].callsToUpsert) :
       LET r == runs[i].callsToUpsert[k]
       IN CallOf(r.callId).external_number = NoPhone =>
            r.customer = <<>> /\ r.unmatchedPhone = Unset
  /\ \A id \in CallIds :
       (dest[id] # NoRecord /\ CallOf(id).external_number = NoPhone) =>
         dest[id][1].customer = <<>> /\ dest[id][1].unmatchedPhone = Unset

\* The ids of the customers whose phone normalizes to n.
CustomersAt(n) ==
  {customers[k].id : k \in {m \in 1..Len(customers) :
                              /\ customers[m].phone # NoPhone
                              /\ NormalizePhone(customers[m].phone) = n}}

\* C26: every record built from a call that has an external phone carries
\* exactly one of the two fields: the link to one customer whose phone
\* normalizes to the call's normalized phone when there is such a customer,
\* otherwise the unmatched phone holding the raw external phone; and
\* matchedCalls grows by the number of linked records of the page.
C26_ExactlyOneField ==
  [][\A i \in Requests :
       (runs[i].pc = "getCalls" /\ runs'[i].pc = "upsertCalls") =>
         LET batch == runs'[i].callsToUpsert
             linked == {k \in 1..Len(batch) : batch[k].customer # <<>>}
         IN /\ \A k \in 1..Len(batch) :
                 LET r == batch[k]
                     phone == CallOf(r.callId).external_number
                     n == NormalizePhone(phone)
                 IN phone # NoPhone =>
                      IF n # NoNormal /\ CustomersAt(n) # {}
                      THEN /\ Len(r.customer) = 1
                           /\ r.customer[1] \in CustomersAt(n)
                           /\ r.customer[1] = runs[i].phoneMap[n]
                           /\ r.unmatchedPhone = Unset
                      ELSE /\ r.customer = <<>>
                           /\ r.unmatchedPhone = phone
            /\ runs'[i].matchedCalls = runs[i].matchedCalls + Cardinality(linked)
    ]_vars

\* C26 witness: a page of two calls, one linked to the customer of its phone,
\* the other, whose phone parses but belongs to no customer, carrying its raw
\* phone as the unmatched phone.
C26_Witness ==
  /\ runs[1].pc = "upsertCalls"
  /\ Len(runs[1].callsToUpsert) = 2
  /\ runs[1].callsToUpsert[1].customer = <<"recB">>
  /\ runs[1].callsToUpsert[1].unmatchedPhone = Unset
  /\ runs[1].callsToUpsert[2].customer = <<>>
  /\ runs[1].callsToUpsert[2].unmatchedPhone = "90000000"
  /\ runs[1].matchedCalls = 1

\* The row holds every field the record carries.
HoldsFields(row, record) ==
  /\ row.callId = record.callId
  /\ row.startTime = record.startTime
  /\ record.customer # <<>> => row.customer = record.customer
  /\ record.unmatchedPhone # Unset => row.unmatchedPhone = record.unmatchedPhone

C27_ConfigErrorFailsFast ==
  ~config.valid =>
    /\ \A i \in Requests :
         /\ runs[i].pc \in {"new", "rejected", "thrown"}
         /\ runs[i].pc = "thrown" =>
              runs[i].ret = [thrown |-> "Missing required environment variables"]
         /\ runs[i].fetches = 0 /\ runs[i].upserts = 0 /\ runs[i].stateWrites = 0
         /\ runs[i].pageCount = 0
    /\ \A id \in CallIds : dest[id] = NoRecord
    /\ attempted = {}
    /\ ~stateFile.exists /\ ~tmpFile.exists
    /\ ~isSyncing

\* C27 witness: two runs in turn have failed on the configuration.
C27_Witness ==
  /\ ~config.valid
  /\ \A i \in Requests : runs[i].pc = "thrown"
  /\ accepted = MaxRequests
  /\ Len(syncHistory) = MaxRequests
  /\ ~syncHistory[1].result.success

\* C29: the history is newest-first: when it is not empty its first entry is
\* lastSyncResult and is the result of the run that finished last, the runs
\* of its entries are in descending order, and getStatus() shows its first
\* entries, ten at most, in the same order.
C29_NewestFirst ==
  /\ syncHistory # <<>> =>
       /\ syncHistory[1] = lastSyncResult
       /\ syncHistory[1].run = accepted - Cardinality(Running)
  /\ \A k \in 1..(Len(syncHistory) - 1) :
       syncHistory[k].run > syncHistory[k + 1].run
  /\ Len(GetStatus.history) = Min(StatusHistoryLen, Len(syncHistory))
  /\ \A k \in 1..Len(GetStatus.history) : GetStatus.history[k] = syncHistory[k]

\* C29 witness: after a hundred failed runs one more has completed and one
\* after it has failed; getStatus() shows ten entries, headed by the failure
\* and the success, of a history that holds more.
C29_Witness ==
  /\ Len(syncHistory) > HistoryCap
  /\ Len(GetStatus.history) = StatusHistoryLen
  /\ GetStatus.history[1] = lastSyncResult
  /\ ~GetStatus.history[1].result.success
  /\ GetStatus.history[2].result.success
  /\ GetStatus.history[2].run = HistoryCap + 1

\* C24: the state write is atomic for readers and across crashes: STATE_FILE
\* never holds a partial write; it changes only in the rename of a run, to the
\* complete record of that run's watermark, so getLastSynced() gives the
\* watermark of before or the new one at every point of setLastSynced; and a
\* crash, during the write of the temporary file or between it and the
\* rename, leaves STATE_FILE and what getLastSynced() reads as they were.
C24_AtomicStateWrite ==
  [][/\ stateFile' # Torn
     /\ stateFile' # stateFile =>
          \E i \in Requests :
            /\ runs[i].pc = "rename"
            /\ stateFile' = StateRecord(runs[i].now \div MsPerSec)
     /\ \A i \in Requests :
          /\ runs[i].pc \in {"writeFile", "rename"} =>
               GetLastSynced(stateFile') \in
                 {GetLastSynced(stateFile), runs[i].now \div MsPerSec}
          /\ (runs[i].pc # "crashed" /\ runs'[i].pc = "crashed") =>
               GetLastSynced(stateFile') = GetLastSynced(stateFile)
    ]_vars

\* C24 witness: the first run crashed between the write of the temporary
\* file and the rename; the complete temporary file is left beside the
\* earlier watermark, which the run after the restart has read.
C24_Witness ==
  /\ runs[1].pc = "crashed"
  /\ tmpFile.exists /\ tmpFile # Torn /\ tmpFile # stateFile
  /\ GetLastSynced(stateFile) = 1
  /\ runs[2].pc = "getCalls"

\* C23: a call of retry() that ends by raising has invoked the operation
\* exactly options.retries times, every invocation having failed, has slept
\* one time fewer, after each failure but the last, and raises the error of
\* its last invocation; and it never invokes the operation more often than
\* that.
C23_RetryBound ==
  /\ retrier.pc # "idle" => retrier.invocations <= retrier.options.retries
  /\ retrier.pc = "thrown" =>
       /\ retrier.invocations = retrier.options.retries
       /\ Len(retrier.delays) = retrier.options.retries - 1
       /\ retrier.ret = [thrown |-> ErrorOf(retrier.options.retries)]
  /\ retrier.pc = "sleep" => Len(retrier.delays) = retrier.invocations
  /\ retrier.pc = "attempt" => Len(retrier.delays) = retrier.invocations - 1

\* C23 witness: with the defaults, five invocations failed, four delays were
\* slept and the error of the fifth is raised.
C23_Witness ==
  /\ retrier.pc = "thrown"
  /\ retrier.options = Defaults
  /\ retrier.invocations = DefaultRetries
  /\ Len(retrier.delays) = DefaultRetries - 1
  /\ retrier.ret.thrown.invocation = DefaultRetries

\* The chunks put end to end.
RECURSIVE Flatten(_)
Flatten(chunks) ==
  IF chunks = <<>> THEN <<>> ELSE Head(chunks) \o Flatten(Tail(chunks))

\* The number of requests that carried the record.
TimesSent(u, record) ==
  Cardinality({j \in 1..Len(u.requests) :
                 \E k \in 1..Len(u.chunks[u.requests[j]]) :
                    u.chunks[u.requests[j]][k] = record})

\* C30: upsertCalls cuts its input, in order, into chunks of ChunkSize
\* records, the last one alone possibly smaller; it issues the request of a
\* chunk through retry(), the chunks in order, one request at a time, the
\* request of chunk k only after k - 1 pacing delays of PaceMs; and when it
\* returns with no request having failed it has issued one request per chunk,
\* ceil(n / ChunkSize) in all, slept as many pacing delays, and sent every
\* record exactly once.
C30_ChunkedUpsert ==
  LET u == upserter
      n == Len(u.calls)
      count == (n + ChunkSize - 1) \div ChunkSize
  IN u.pc # "idle" =>
       /\ Len(u.chunks) = count
       /\ Flatten(u.chunks) = u.calls
       /\ \A k \in 1..count :
            /\ k < count => Len(u.chunks[k]) = ChunkSize
            /\ Len(u.chunks[k]) \in 1..ChunkSize
       /\ \A j \in 1..Len(u.requests) :
            /\ u.requests[j] \in 1..count
            /\ j > 1 => u.requests[j] \in {u.requests[j - 1], u.requests[j - 1] + 1}
       /\ \A k \in 1..Len(u.paces) : u.paces[k] = PaceMs
       /\ u.pc = "patch" =>
            /\ retrier.pc # "idle" /\ retrier.options = Defaults
            /\ u.requests[Len(u.requests)] = u.index
            /\ Len(u.paces) = u.index - 1
            /\ retrier.pc \in {"attempt", "returned", "thrown"} =>
                 Cardinality({j \in 1..Len(u.requests) : u.requests[j] = u.index})
                   = retrier.invocations
       /\ u.pc # "patch" => retrier.pc = "idle"
       /\ u.pc = "pace" => Len(u.paces) = u.index - 1
       /\ (u.pc = "returned" /\ Len(u.requests) <= count) =>
            /\ u.requests = [k \in 1..count |-> k]
            /\ Len(u.paces) = count
            /\ \A k \in 1..n : TimesSent(u, u.calls[k]) = 1

\* C30 witness: twenty-one records went out in three requests of ten, ten
\* and one, each followed by its pacing delay.
C30_Witness ==
  /\ upserter.pc = "returned"
  /\ Len(upserter.calls) = 2 * ChunkSize + 1
  /\ upserter.requests = <<1, 2, 3>>
  /\ Len(upserter.chunks[3]) = 1
  /\ upserter.paces = <<PaceMs, PaceMs, PaceMs>>

\* C31: the delay slept after failed attempt k is the backoff
\* minTimeout * factor^(k - 1) capped at maxTimeout, plus a jitter of less
\* than a tenth of the capped value: at least the capped value and less than
\* 1.1 times it.
C31_DelayBounds ==
  \A k \in 1..Len(retrier.delays) :
    LET o == retrier.options
        backoff == o.minTimeout * Pow(o.factor, k - 1)
        capped == IF backoff <= o.maxTimeout THEN backoff ELSE o.maxTimeout
    IN /\ retrier.delays[k] >= capped
       /\ 10 * retrier.delays[k] < 11 * capped

\* C31 witness: with a cap of three seconds the first delay is one second
\* without jitter and the third is the cap with nearly the whole jitter.
C31_Witness ==
  /\ retrier.options.maxTimeout = 3 * DefaultMinTimeout
  /\ Len(retrier.delays) >= 3
  /\ retrier.delays[1] = DefaultMinTimeout
  /\ retrier.delays[3] > 3 * DefaultMinTimeout
  /\ retrier.delays[3] = (3 * DefaultMinTimeout * 10999) \div 10000

\* C39: a call of retry() that returns gives the value of its last
\* invocation, all invocations before it having failed; with k invocations
\* made, k at most options.retries, it has slept k - 1 delays, raises
\* nothing, and invokes the operation no more.
C39_FirstSuccessReturns ==
  [][/\ retrier'.pc = "returned" =>
          /\ retrier'.ret = [value |-> ValueOf(retrier'.invocations)]
          /\ retrier'.invocations \in 1..retrier'.options.retries
          /\ Len(retrier'.delays) = retrier'.invocations - 1
          /\ retrier'.lastError =
                IF retrier'.invocations = 1 THEN NoError
                ELSE ErrorOf(retrier'.invocations - 1)
     /\ retrier.pc = "returned" => retrier' = retrier
    ]_vars

\* C39 witness: with the defaults the third invocation succeeded after two
\* failures and two delays.
C39_Witness ==
  /\ retrier.pc = "returned"
  /\ retrier.options = Defaults
  /\ retrier.invocations = 3
  /\ retrier.ret.value.invocation = 3
  /\ Len(retrier.delays) = 2
  /\ retrier.lastError = ErrorOf(2)

\* The positions of a run from the watermark read on: the call pages are
\* fetched and the calls matched.
Matching(i) ==
  runs[i].pc \in {"getLastSynced", "getCalls", "upsertCalls", "writeFile", "rename"}

\* The number of pages the customers table takes: one even when it is empty.
DirectoryPages ==
  IF customers = <<>> THEN 1
  ELSE (Len(customers) + DirectoryPageSize - 1) \div DirectoryPageSize

\* The places in the table of the customers whose phone normalizes to n.
PlacesAt(n) ==
  {k \in 1..Len(customers) : /\ customers[k].phone # NoPhone
                             /\ NormalizePhone(customers[k].phone) = n}

\* C32: the customers are loaded once per run and to the end before a call
\* page is fetched: a run that has not finished the load has fetched no call
\* page and built no record; from the watermark read on every customer of
\* the table is loaded, in as many requests as the table has pages, the map
\* has a key for exactly the phones the table holds, and neither the load
\* nor the map changes while the run fetches and matches.
C32_DirectoryDrainedFirst ==
  [][\A i \in Requests :
       /\ runs[i].pc \in {"connect", "getCustomers"} =>
            /\ runs[i].fetches = 0 /\ runs[i].pageCount = 0
            /\ runs[i].callsToUpsert = <<>> /\ runs[i].totalCalls = 0
            /\ runs[i].phoneMap = EmptyPhoneMap
       /\ Matching(i) =>
            /\ loader.pc = "done"
            /\ loader.customers = customers
            /\ loader.fetches = DirectoryPages
            /\ \A n \in NormalPhones :
                 runs[i].phoneMap[n] # NoCustomer <=> PlacesAt(n) # {}
            /\ runs'[i].pc \in {"getLastSynced", "getCalls", "upsertCalls",
                                 "writeFile", "rename"} =>
                 runs'[i].phoneMap = runs[i].phoneMap
            /\ loader' = loader
    ]_vars

\* C32 witness: a table of three pages was loaded in three requests, and the
\* first call, whose customer is on the third page, is linked.
C32_Witness ==
  /\ Len(customers) = 2 * DirectoryPageSize + 1
  /\ loader.pc = "done" /\ loader.fetches = 3
  /\ runs[1].pc = "upsertCalls"
  /\ runs[1].fetches = 1
  /\ runs[1].callsToUpsert[1].customer = <<"recB">>

\* C33: when several customers normalize to one phone the map holds the id
\* of the one loaded last, and the record of a call from that phone is
\* linked to it.
C33_LaterEntryWins ==
  \A i \in Requests :
    Matching(i) =>
      /\ \A n \in NormalPhones :
           PlacesAt(n) # {} =>
             runs[i].phoneMap[n] =
               customers[CHOOSE k \in PlacesAt(n) : \A m \in PlacesAt(n) : m <= k].id
      /\ \A j \in 1..Len(runs[i].callsToUpsert) :
           LET r == runs[i].callsToUpsert[j]
               n == NormalizePhone(CallOf(r.callId).external_number)
           IN (n # NoNormal /\ PlacesAt(n) # {}) =>
                r.customer =
                  <<customers[CHOOSE k \in PlacesAt(n) : \A m \in PlacesAt(n) : m <= k].id>>

\* C33 witness: recB is on the first page of the customers and recA, of the
\* same phone, on the second; the call from that phone is linked to recA.
C33_Witness ==
  /\ Len(customers) = DirectoryPageSize + 1
  /\ customers[1].id = "recB"
  /\ customers[Len(customers)].id = "recA"
  /\ Cardinality(PlacesAt("+6581234567")) = 2
  /\ runs[1].pc = "upsertCalls"
  /\ runs[1].callsToUpsert[1].customer = <<"recA">>

\* C34 (as claimed): whenever no run() call is in flight the engine is Idle,
\* also when an emit has thrown, so that no request is answered 'already in
\* progress' while nothing runs.
C34_IdleWhenNothingRuns ==
  Running = {} => ~isSyncing

\* C35: without a reset the persisted watermark never decreases: at most one
\* run is in flight, every write of a run puts floor(now / 1000) of that run
\* in the state file, the same value after each of its pages, and no step
\* lowers what getLastSynced() reads.
C35_WatermarkNeverDecreases ==
  [][/\ Cardinality(Running') <= 1
     /\ GetLastSynced(stateFile') >= GetLastSynced(stateFile)
     /\ stateFile' # stateFile =>
           \E i \in Running : /\ runs[i].pc = "rename"
                              /\ stateFile' = StateRecord(runs[i].now \div MsPerSec)
     /\ \A i \in Running :
           (runs[i].pc = "rename" /\ tmpFile # NoFile /\ tmpFile' = NoFile) =>
             /\ stateFile' = StateRecord(runs[i].now \div MsPerSec)
             /\ runs[i].stateWrites > 0 => stateFile' = stateFile]_vars

\* The second run is about to replace the watermark the first run wrote by a
\* later one.
C35_Witness ==
  /\ runs[2].pc = "rename"
  /\ tmpFile = StateRecord(runs[2].now \div MsPerSec)
  /\ GetLastSynced(stateFile) = (BaseMs - TickMs) \div MsPerSec
  /\ GetLastSynced(stateFile) < runs[2].now \div MsPerSec

\* C36: a run whose first page comes back empty writes nothing: as long as
\* the run has sent no page to the destination no step changes the calls
\* table, the state file or its temp file, and the empty first page ends the
\* run with success = true and totalCalls = 0.
C36_EmptyFirstPageWritesNothing ==
  [][/\ (runs[1].upserts = 0 /\ runs'[1].upserts = 0) =>
          UNCHANGED <<stateFile, tmpFile, dest>>
     /\ (runs[1].pc = "getCalls" /\ runs[1].pageCount = 1
           /\ runs'[1].pc = "returned") =>
          /\ runs'[1].ret.result.success
          /\ runs'[1].ret.result.totalCalls = 0
          /\ UNCHANGED <<stateFile, tmpFile, dest>>]_vars

\* The run returned from an empty first page over an earlier watermark.
C36_Witness ==
  /\ runs[1].pc = "returned"
  /\ runs[1].ret.result.success
  /\ runs[1].ret.result.totalCalls = 0
  /\ runs[1].ret.result.pagesProcessed = 1
  /\ stateFile \in {StateRecord(w) : w \in Watermarks}
  /\ tmpFile = NoFile
  /\ attempted = {}

\* The step in which the state write of run i fails.
C37_SaveFailed(i) ==
  /\ runs'[i].pc = "thrown"
  /\ runs'[i].ret = [thrown |-> "Failed to save state"]
  /\ ~lastSyncResult'.result.success
  /\ lastSyncResult'.result.error = "Failed to save state"
  /\ stateFile' = stateFile
  /\ dest' = dest
  /\ runs[i].upserts > 0
  /\ \A k \in 1..Len(runs[i].callsToUpsert) :
        runs[i].callsToUpsert[k].callId \in attempted

\* C37: a failed watermark write is not swallowed: from the state write of
\* a page the run goes on only with the watermark written; otherwise sync()
\* throws, the run ends with success = false, the state file keeps the
\* previous watermark, and the page's records were sent to the destination
\* before.
C37_SaveFailurePropagates ==
  [][/\ runs[1].pc = "writeFile" =>
          \/ /\ runs'[1].pc = "rename"
             /\ tmpFile' = StateRecord(runs[1].now \div MsPerSec)
          \/ C37_SaveFailed(1)
     /\ runs[1].pc = "rename" =>
          \/ /\ runs'[1].pc \in {"getCalls", "returned"}
             /\ stateFile' = StateRecord(runs[1].now \div MsPerSec)
          \/ C37_SaveFailed(1)]_vars

\* The write after a page failed: the run threw, the page is in the calls
\* table and the earlier watermark is still in the state file.
C37_Witness ==
  /\ runs[1].pc = "thrown"
  /\ runs[1].ret = [thrown |-> "Failed to save state"]
  /\ ~lastSyncResult.result.success
  /\ stateFile = StateRecord(1)
  /\ \E id \in attempted : dest[id] # NoRecord

\* The records of the chunks after chunk `index` of the upsertCalls call.
C38_Remaining(u) ==
  {u.calls[k].callId : k \in {m \in 1..Len(u.calls) : m > u.index * ChunkSize}}

\* C38: when a chunk of a page fails after its retries no later chunk of the
\* page is requested or written, the run goes on to the state write, which
\* puts the run's watermark in place, and totalCalls and matchedCalls hold
\* every record of the page, written or not.
C38_FailedChunkStillCounted ==
  [][/\ (runs[1].pc = "upserting" /\ upserter.pc = "patch"
           /\ retrier.pc = "thrown") =>
          /\ runs'[1].pc = "writeFile"
          /\ dest' = dest
          /\ \A k \in 1..Len(upserter'.requests) :
                upserter'.requests[k] <= upserter.index
          /\ \A id \in C38_Remaining(upserter) : dest'[id] = NoRecord
     /\ (upserter.pc = "thrown" /\ runs[1].pc \in {"writeFile", "rename"}) =>
          /\ upserter'.requests = upserter.requests
          /\ dest' = dest
          /\ runs[1].pageCount = 1 =>
                /\ runs[1].totalCalls = Len(runs[1].callsToUpsert)
                /\ runs[1].matchedCalls =
                     Cardinality({k \in 1..Len(runs[1].callsToUpsert) :
                                    runs[1].callsToUpsert[k].customer # <<>>})
          /\ runs'[1].pc = "returned" =>
                /\ runs'[1].ret.result.totalCalls = runs[1].totalCalls
                /\ runs'[1].ret.result.matchedCalls = runs[1].matchedCalls
          /\ (runs[1].pc = "rename" /\ runs'[1].pc \in {"getCalls", "returned"}) =>
                stateFile' = StateRecord(runs[1].now \div MsPerSec)]_vars

\* The first chunk of the first page failed: nothing of the page is in the
\* table, its second chunk was never requested, the watermark is written and
\* the counters hold the whole page.
C38_Witness ==
  /\ runs[1].pc = "getCalls"
  /\ runs[1].pageCount = 2
  /\ upserter.pc = "thrown"
  /\ upserter.index = 1
  /\ Len(upserter.chunks) = 2
  /\ upserter.requests = [k \in 1..DefaultRetries |-> 1]
  /\ \A id \in DOMAIN dest : dest[id] = NoRecord
  /\ stateFile = StateRecord(runs[1].now \div MsPerSec)
  /\ runs[1].totalCalls = ChunkSize + 1
  /\ runs[1].matchedCalls > 0

====
